---- MODULE Spec2Model ----
(***************************************************************************)
(* Hazard aggregation, risk scoring, river lookup and trend, stability      *)
(* score and HTTP routes of n1kala/git_basics.                              *)
(*                                                                         *)
(* One operation of the core is in flight at a time (the code is request   *)
(* scoped and shares no state between requests), called directly or by the *)
(* route handler in flight.  The asynchronous functions are cut at their    *)
(* awaits: a step runs from one await to the next, together with the        *)
(* promise reactions (Promise.all, the awaiting caller) that the JavaScript *)
(* microtask queue runs before any other response can be delivered.         *)
(*                                                                         *)
(* Spec is the machine of the operations that do I/O.  SpecRisk, SpecTrend  *)
(* and SpecStability apply the pure functions to inputs drawn by their      *)
(* initial predicates.  SpecRegistry is the subscribe route with its Map,   *)
(* the notification script and the routes it calls.                         *)
(*                                                                         *)
(* Numbers: distances are in metres, probabilities are fixed-point          *)
(* multiples of 1/Scale, coordinates are whole degrees, gage heights and    *)
(* temperatures are in hundredths, times in minutes, slopes and penalties   *)
(* are exact fractions.  undefined, null and NaN are missing record keys.   *)
(***************************************************************************)
EXTENDS Integers, Sequences, FiniteSets, TLC

\* ------------------------------------------------------------------ bounds
MaxEvents == 2
MaxQuakes == 2
MaxSeries == 2
MaxPoints == 2
MaxYears == 3
MaxCount == 2
MaxKeys == 2
AdviceSteps == 20
\* probabilities are whole multiples of 1/Scale
Scale == 10000

\* ------------------------------------------------------------ small helpers
Abs(x) == IF x < 0 THEN -x ELSE x

Min(a, b) == IF a <= b THEN a ELSE b

Max(a, b) == IF a >= b THEN a ELSE b

Has(r, k) == k \in DOMAIN r

SeqsUpTo(S, n) == UNION {[1..k -> S] : k \in 0..n}

\* ------------------------------------------------------------- geo utilities
\* Great-circle distances (metres, rounded) of the whole-degree grid points
\* used here, R = 6371 km, keyed by <<lower lat, higher lat, |dLng|>>.
HavTable ==
  ( <<0,0,0>> :> 0 @@ <<0,0,1>> :> 111195 @@ <<0,0,2>> :> 222390 @@
    <<0,1,0>> :> 111195 @@ <<0,1,1>> :> 157249 @@ <<0,1,2>> :> 248629 @@
    <<0,2,0>> :> 222390 @@ <<0,2,1>> :> 248629 @@ <<0,2,2>> :> 314475 @@
    <<1,1,0>> :> 0 @@ <<1,1,1>> :> 111178 @@ <<1,1,2>> :> 222356 @@
    <<1,2,0>> :> 111195 @@ <<1,2,1>> :> 157225 @@ <<1,2,2>> :> 248569 @@
    <<2,2,0>> :> 0 @@ <<2,2,1>> :> 111127 @@ <<2,2,2>> :> 222254 )

haversineDistanceM(a, b) ==
  HavTable[<<Min(a.lat, b.lat), Max(a.lat, b.lat), Abs(b.lng - a.lng)>>]

\* d <= radiusKm, with d in metres
WithinKm(d, radiusKm) == d <= radiusKm * 1000

\* ------------------------------------------------------------------ inputs
Centers == {[lat |-> 0, lng |-> 0], [lat |-> 1, lng |-> 1]}

RadiusSet == {-1, 0, 120, 250}

LookbackSet == {0, 5, 300000}

Statuses == {200, 204, 404, 503}

\* res.ok of the fetch API
ResOk(status) == status >= 200 /\ status <= 299

G(date, coords) == [date |-> date, coordinates |-> coords]

Cat(n, title) == [id |-> n, title |-> title]

\* Upstream natural events.  coordinates are <<lng, lat>>; a missing key is
\* an undefined field.
EventPool ==
  { [id |-> "E1", title |-> "far then near",
     categories |-> <<Cat(8, "Wildfires"), Cat(9, "Floods")>>,
     geometry |-> <<G("2024-01-01", <<2, 2>>), G("2024-01-02", <<0, 1>>)>>,
     link |-> "l1"],
    [id |-> "E2", title |-> "diagonal",
     categories |-> <<Cat(8, "Wildfires")>>,
     geometry |-> <<G("2024-02-01", <<1, 1>>)>>],
    [id |-> "E3", title |-> "near then far",
     categories |-> <<Cat(15, "Sea and Lake Ice")>>,
     geometry |-> <<G("2024-03-01", <<0, 1>>), G("2024-03-02", <<2, 2>>)>>,
     link |-> "l3"],
    [id |-> "E4", title |-> "bare"],
    [id |-> "E5", title |-> "malformed",
     categories |-> <<>>,
     geometry |-> <<[date |-> "2024-05-01", coordinates |-> <<1>>],
                    [date |-> "2024-05-02"]>>],
    [id |-> "E6", title |-> "position lost",
     categories |-> <<Cat(6, "Drought")>>,
     geometry |-> <<G("2024-06-01", <<0, 0>>), [date |-> "2024-06-02"]>>] }

\* Parsed EONET response bodies: not JSON, JSON null, an object without
\* "events", an object with an event list.
EonetBodies ==
  {[kind |-> "invalid"], [kind |-> "null"], [kind |-> "object"]}
    \cup {[kind |-> "object", events |-> s] : s \in SeqsUpTo(EventPool, MaxEvents)}

QuakePool ==
  { [id |-> "Q1",
     properties |-> [mag |-> 45, place |-> "p1", time |-> 1000, url |-> "u1"],
     geometry |-> [type |-> "Point", coordinates |-> <<0, 1, 10>>]],
    [id |-> "Q2",
     properties |-> [place |-> "p2", time |-> 2000, url |-> "u2"],
     geometry |-> [type |-> "Point", coordinates |-> <<1, 1>>]] }

QuakeBodies ==
  {[kind |-> "invalid"], [kind |-> "null"], [kind |-> "object"]}
    \cup {[kind |-> "object", features |-> s] : s \in SeqsUpTo(QuakePool, MaxQuakes)}

Info(code, name, lat, lng) ==
  [sourceInfo |-> [siteCode |-> <<[value |-> code]>>, siteName |-> name,
                   geoLocation |-> [geogLocation |-> [latitude |-> lat, longitude |-> lng]]]]

\* Entries of value.timeSeries of the discovery response; the same station
\* appears once per time series it reports.
SeriesPool ==
  { Info("01", "gage 01", 1, 0),
    Info("02", "gage 02", 0, 1),
    Info("03", "gage 03", 2, 2),
    [sourceInfo |-> [siteName |-> "nowhere",
                     geoLocation |-> [geogLocation |-> [latitude |-> 1]]]],
    [name |-> "no sourceInfo"] }

GageBodies ==
  {[kind |-> "invalid"], [kind |-> "null"], [kind |-> "object"]}
    \cup {[kind |-> "object", timeSeries |-> s] : s \in SeqsUpTo(SeriesPool, MaxSeries)}

\* Entries of value.timeSeries[0].values[0].value; value in hundredths
PointPool ==
  { [dateTime |-> "2024-06-01T00:00", value |-> 1000],
    [dateTime |-> "2024-06-01T06:00", value |-> 1050],
    [value |-> 990],
    [dateTime |-> "2024-06-01T03:00"] }

LevelBodies ==
  {[kind |-> "invalid"], [kind |-> "null"], [kind |-> "object"]}
    \cup {[kind |-> "object", points |-> s] : s \in SeqsUpTo(PointPool, MaxPoints)}

SiteCodes == {"01", ""}

\* ------------------------------------------------------- hazard fetchers
\* data.events ?? []
EonetEvents(data) == IF Has(data, "events") THEN data.events ELSE <<>>

\* the callback of geometry.some: coords = [lng, lat, ...]
GeometryHit(g, center, radiusKm) ==
  /\ Has(g, "coordinates")
  /\ Len(g.coordinates) >= 2
  /\ WithinKm(haversineDistanceM(center, [lat |-> g.coordinates[2],
                                          lng |-> g.coordinates[1]]), radiusKm)

\* a filter that looks at the most recent position only
EventHitLastOnly(ev, center, radiusKm) ==
  /\ Has(ev, "geometry")
  /\ Len(ev.geometry) > 0
  /\ GeometryHit(ev.geometry[Len(ev.geometry)], center, radiusKm)

\* ev.geometry?.some(...)
EventHit(ev, center, radiusKm) ==
  /\ Has(ev, "geometry")
  /\ \E i \in 1..Len(ev.geometry) : GeometryHit(ev.geometry[i], center, radiusKm)

EonetFilter(events, center, radiusKm) ==
  SelectSeq(events, LAMBDA ev : EventHit(ev, center, radiusKm))

\* data.features ?? []
QuakeFeatures(data) == IF Has(data, "features") THEN data.features ELSE <<>>

\* new Date().setFullYear(y - years).toISOString() throws a RangeError when
\* the year leaves the range of Date
isoDateNYearsAgoThrows(years) ==
  LET y == 2026 - years IN y < -271821 \/ y > 275760

\* --------------------------------------------------------- hazard aggregator
EvCategories(ev) == IF Has(ev, "categories") THEN ev.categories ELSE <<>>

\* a tally that sets the counter instead of adding to it
IncrementOverwrite(m, title) == (title :> 1) @@ m

\* eonetByCategory[title] = (eonetByCategory[title] ?? 0) + 1
Increment(m, title) ==
  IF title \in DOMAIN m THEN [m EXCEPT ![title] = @ + 1] ELSE m @@ (title :> 1)

RECURSIVE TallyCategories(_, _)
TallyCategories(m, cats) ==
  IF cats = <<>> THEN m
  ELSE TallyCategories(Increment(m, Head(cats).title), Tail(cats))

RECURSIVE TallyEvents(_, _)
TallyEvents(m, events) ==
  IF events = <<>> THEN m
  ELSE TallyEvents(TallyCategories(m, EvCategories(Head(events))), Tail(events))

EmptyMap == [t \in {} |-> 0]

OptField(r, k, asKey) == IF Has(r, k) THEN (asKey :> r[k]) ELSE EmptyMap

ProjectEarthquake(f) ==
  [id |-> f.id, place |-> f.properties.place, time |-> f.properties.time,
   url |-> f.properties.url,
   coordinates |-> [lat |-> f.geometry.coordinates[2],
                    lng |-> f.geometry.coordinates[1]]]
    @@ OptField(f.properties, "mag", "mag")

\* a projection that drops the records without a magnitude
ProjectEarthquakesWithMag(eqs) ==
  LET kept == SelectSeq(eqs, LAMBDA f : Has(f.properties, "mag")) IN
    [i \in 1..Len(kept) |-> ProjectEarthquake(kept[i])]

ProjectEarthquakes(eqs) == [i \in 1..Len(eqs) |-> ProjectEarthquake(eqs[i])]

\* g = ev.geometry?.[ev.geometry.length - 1]; a missing g is the empty record
\* a projection that shows where the event was first reported
FirstGeometry(ev) ==
  IF Has(ev, "geometry") /\ Len(ev.geometry) > 0
  THEN ev.geometry[1] ELSE EmptyMap

\* ev.geometry?.[ev.geometry.length - 1]
LastGeometry(ev) ==
  IF Has(ev, "geometry") /\ Len(ev.geometry) > 0
  THEN ev.geometry[Len(ev.geometry)] ELSE EmptyMap

\* [lng, lat] = Array.isArray(g?.coordinates) ? g.coordinates : [0, 0]
DisplayCoordinates(g) ==
  LET c == IF Has(g, "coordinates") THEN g.coordinates ELSE <<0, 0>> IN
    (IF Len(c) >= 2 THEN ("lat" :> c[2]) ELSE EmptyMap)
      @@ (IF Len(c) >= 1 THEN ("lng" :> c[1]) ELSE EmptyMap)

ProjectEvent(ev) ==
  LET g == LastGeometry(ev) IN
    [id |-> ev.id, title |-> ev.title,
     categories |-> [j \in 1..Len(EvCategories(ev)) |-> EvCategories(ev)[j].title],
     time |-> IF Has(g, "date") THEN g.date ELSE "",
     coordinates |-> DisplayCoordinates(g)]
      @@ OptField(ev, "link", "link")

ProjectEvents(eonet) == [i \in 1..Len(eonet) |-> ProjectEvent(eonet[i])]

\* lines 97-136: what buildHazardsSummary does once Promise.all has resolved
Summarize(center, radiusKm, lookbackYears, eonet, eqs) ==
  LET earthquakes == ProjectEarthquakes(eqs) IN
    [center |-> center, radiusKm |-> radiusKm, lookbackYears |-> lookbackYears,
     counts |-> [earthquakes |-> Len(earthquakes),
                 eonetByCategory |-> TallyEvents(EmptyMap, eonet)],
     earthquakes |-> earthquakes,
     eonetEvents |-> ProjectEvents(eonet)]

\* ------------------------------------------------------------------- state
VARIABLES
  op,        \* the operation in flight, "none" when idle
  args,      \* its arguments
  task,      \* per fetching function: where it stands and what it holds
  requests,  \* per upstream source: requests issued by the operation in flight
  settled,   \* the fetching functions in the order their promises settled
  result,    \* the operation's promise: pending, returned(value), threw(error)
  route,     \* the route handler in flight: name, query, position, the core
             \* functions it has called, its response
  subscribers \* the subscribe route's Map, as its entries in insertion order

vars == <<op, args, task, requests, settled, result, route, subscribers>>

HazardTasks == {"fetchEonetEvents", "fetchEarthquakes"}

Tasks == HazardTasks \cup {"findNearestUsgsGage", "fetchGageLevels"}

Sources == {"eonet", "usgs-earthquake", "usgs-water"}

SourceOf(t) ==
  CASE t = "fetchEonetEvents" -> "eonet"
    [] t = "fetchEarthquakes" -> "usgs-earthquake"
    [] OTHER -> "usgs-water"

\* the text before the status code in `${...} failed: ${res.status}`
ErrorPrefix(t) ==
  CASE t = "fetchEonetEvents" -> "EONET request failed: "
    [] t = "fetchEarthquakes" -> "USGS earthquake request failed: "
    [] t = "findNearestUsgsGage" -> "USGS IV discovery failed: "
    [] OTHER -> "USGS IV failed: "

Idle == [st |-> "idle"]

NoRoute == [name |-> "none"]

Init ==
  /\ op = "none"
  /\ args = EmptyMap
  /\ task = [t \in Tasks |-> Idle]
  /\ requests = [s \in Sources |-> 0]
  /\ settled = <<>>
  /\ route = NoRoute
  /\ subscribers = <<>>
  /\ result = [st |-> "none"]

Rejected(t) == task[t].st = "rejected"

Resolved(t) == task[t].st = "resolved"

\* an aggregation that waits for both fetchers and takes a failed one as empty
buildHazardsSummaryAllSettled(tk, ord) ==
  IF \A t \in HazardTasks : tk[t].st \in {"resolved", "rejected"}
  THEN [st |-> "returned",
        value |-> Summarize(args.center, args.radiusKm, args.lookbackYears,
                            IF tk["fetchEonetEvents"].st = "resolved"
                            THEN tk["fetchEonetEvents"].value ELSE <<>>,
                            IF tk["fetchEarthquakes"].st = "resolved"
                            THEN tk["fetchEarthquakes"].value ELSE <<>>)]
  ELSE [st |-> "pending"]

\* await Promise.all([fetchEonetEvents(..), fetchEarthquakes(..)]) and the rest
\* of buildHazardsSummary, given the fetchers' promises tk settled in order ord
buildHazardsSummaryResume(tk, ord) ==
  LET failed == SelectSeq(ord, LAMBDA t : t \in HazardTasks /\ tk[t].st = "rejected") IN
    IF failed # <<>> THEN [st |-> "threw", error |-> tk[Head(failed)].error]
    ELSE IF \A t \in HazardTasks : tk[t].st = "resolved"
    THEN [st |-> "returned",
          value |-> Summarize(args.center, args.radiusKm, args.lookbackYears,
                              tk["fetchEonetEvents"].value,
                              tk["fetchEarthquakes"].value)]
    ELSE [st |-> "pending"]

\* the promise of a fetching function called directly is the operation's
DirectResume(tk) ==
  IF tk[op].st = "rejected" THEN [st |-> "threw", error |-> tk[op].error]
  ELSE IF tk[op].st = "resolved" THEN [st |-> "returned", value |-> tk[op].value]
  ELSE [st |-> "pending"]

\* The promise of task t settles as rec; the reactions run before anything else.
Settle(t, rec) ==
  LET tk == [task EXCEPT ![t] = rec]
      ord == Append(settled, t) IN
    /\ task' = tk
    /\ settled' = ord
    /\ result' = IF result.st # "pending" THEN result
                 ELSE IF op = "buildHazardsSummary"
                      THEN buildHazardsSummaryResume(tk, ord)
                      ELSE DirectResume(tk)

\* a day window without its lower end
daysNoFloor(lookbackYears) == Min(365 * lookbackYears, 3650)

\* the days parameter of the EONET request
days(lookbackYears) == Max(30, Min(365 * lookbackYears, 3650))

\* a start that leaves the seismic fetch for later
StartFetchersEonetOnly(lookbackYears) ==
  [task EXCEPT !["fetchEonetEvents"] = [st |-> "awaitFetch"]]

\* the two fetchers as buildHazardsSummary starts them: each runs to its
\* first await, which issues its request; fetchEarthquakes computes its start
\* date first
StartFetchers(lookbackYears) ==
  [task EXCEPT !["fetchEonetEvents"] = [st |-> "awaitFetch", days |-> days(lookbackYears)],
               !["fetchEarthquakes"] =
                  IF isoDateNYearsAgoThrows(lookbackYears)
                  THEN [st |-> "rejected", error |-> [name |-> "RangeError"]]
                  ELSE [st |-> "awaitFetch"]]

buildHazardsSummary(center, radiusKm, lookbackYears) ==
  /\ op = "none"
  /\ op' = "buildHazardsSummary"
  /\ args' = [center |-> center, radiusKm |-> radiusKm, lookbackYears |-> lookbackYears]
  /\ LET tk == StartFetchers(lookbackYears)
         ord == IF tk["fetchEarthquakes"].st = "rejected"
                THEN <<"fetchEarthquakes">> ELSE <<>> IN
       /\ task' = tk
       /\ settled' = ord
       /\ requests' = [s \in Sources |->
                         IF \E t \in HazardTasks : SourceOf(t) = s /\ tk[t].st = "awaitFetch"
                         THEN requests[s] + 1 ELSE requests[s]]
       /\ result' = buildHazardsSummaryResume(tk, ord)

\* a fetcher that asks once more after a failed response
FetchRespondsRetry(t, status) ==
  /\ task[t].st = "awaitFetch"
  /\ IF ResOk(status)
     THEN /\ task' = [task EXCEPT ![t] = [st |-> "awaitJson", res |-> status]]
          /\ UNCHANGED <<settled, result, requests>>
     ELSE IF requests[SourceOf(t)] < 2
     THEN /\ requests' = [requests EXCEPT ![SourceOf(t)] = @ + 1]
          /\ UNCHANGED <<task, settled, result>>
     ELSE /\ Settle(t, [st |-> "rejected", res |-> status,
                        error |-> [prefix |-> ErrorPrefix(t), status |-> status]])
          /\ UNCHANGED requests
  /\ UNCHANGED <<op, args, route, subscribers>>

\* a fetcher that reads the body whatever the status
FetchRespondsUnchecked(t, status) ==
  /\ task[t].st = "awaitFetch"
  /\ task' = [task EXCEPT ![t] = [st |-> "awaitJson", res |-> status]]
  /\ UNCHANGED <<op, args, requests, settled, result, route, subscribers>>

\* the response to the request of t arrives: `if (!res.ok) throw new Error(...)`
FetchResponds(t, status) ==
  /\ task[t].st = "awaitFetch"
  /\ IF ResOk(status)
     THEN /\ task' = [task EXCEPT ![t] = [st |-> "awaitJson", res |-> status]]
          /\ UNCHANGED <<settled, result>>
     ELSE Settle(t, [st |-> "rejected", res |-> status,
                     error |-> [prefix |-> ErrorPrefix(t), status |-> status]])
  /\ UNCHANGED <<op, args, requests, route, subscribers>>

\* the request of t fails without a response (network failure, timeout)
FetchFails(t) ==
  /\ task[t].st = "awaitFetch"
  /\ Settle(t, [st |-> "rejected", error |-> [name |-> "TypeError"]])
  /\ UNCHANGED <<op, args, requests, route, subscribers>>

\* fetchEonetEvents from `await res.json()` on
EonetJson(data) ==
  LET t == "fetchEonetEvents" IN
  /\ task[t].st = "awaitJson"
  /\ Settle(t,
       CASE data.kind = "invalid" ->
              [st |-> "rejected", res |-> task[t].res, error |-> [name |-> "SyntaxError"]]
         [] data.kind = "null" ->
              [st |-> "rejected", res |-> task[t].res, error |-> [name |-> "TypeError"]]
         [] OTHER ->
              [st |-> "resolved", res |-> task[t].res, body |-> data,
               value |-> EonetFilter(EonetEvents(data), args.center, args.radiusKm)])
  /\ UNCHANGED <<op, args, requests, route, subscribers>>

\* fetchEarthquakes from `await res.json()` on
QuakeJson(data) ==
  LET t == "fetchEarthquakes" IN
  /\ task[t].st = "awaitJson"
  /\ Settle(t,
       CASE data.kind = "invalid" ->
              [st |-> "rejected", res |-> task[t].res, error |-> [name |-> "SyntaxError"]]
         [] data.kind = "null" ->
              [st |-> "rejected", res |-> task[t].res, error |-> [name |-> "TypeError"]]
         [] OTHER ->
              [st |-> "resolved", res |-> task[t].res, body |-> data,
               value |-> QuakeFeatures(data)])
  /\ UNCHANGED <<op, args, requests, route, subscribers>>

\* ------------------------------------------------------------------- river
Null == [null |-> TRUE]

\* a field read through optional chaining: the empty record when missing
Opt(r, k) == IF Has(r, k) THEN r[k] ELSE EmptyMap

\* data?.value?.timeSeries ?? []
GageSeries(data) == IF Has(data, "timeSeries") THEN data.timeSeries ELSE <<>>

\* lines 50-57; Number(undefined) is NaN: the key is left out
ToSite(si) ==
  LET loc == Opt(Opt(si, "geoLocation"), "geogLocation") IN
    [siteCode |-> IF Has(si, "siteCode") /\ Len(si.siteCode) > 0
                     /\ Has(si.siteCode[1], "value")
                  THEN si.siteCode[1].value ELSE "",
     siteName |-> IF Has(si, "siteName") THEN si.siteName ELSE "",
     coordinates |-> OptField(loc, "latitude", "lat") @@ OptField(loc, "longitude", "lng")]

FiniteCoordinates(s) == Has(s.coordinates, "lat") /\ Has(s.coordinates, "lng")

\* lines 47-58
Candidates(series) ==
  LET infos == SelectSeq(series, LAMBDA ts : Has(ts, "sourceInfo"))
      sites == [i \in 1..Len(infos) |-> ToSite(infos[i].sourceInfo)] IN
    SelectSeq(sites, FiniteCoordinates)

\* lines 60-68; best = Null stands for bestD = Infinity
RECURSIVE NearestLoop(_, _, _)
NearestLoop(center, cands, best) ==
  IF cands = <<>> THEN best
  ELSE LET s == Head(cands)
           d == haversineDistanceM(center, s.coordinates) IN
         NearestLoop(center, Tail(cands),
                     IF best = Null \/ d < haversineDistanceM(center, best.coordinates)
                     THEN s ELSE best)

\* a search that walks the candidates from the last to the first
NearestFromEnd(center, series) ==
  LET candidates == Candidates(series)
      reversed == [i \in 1..Len(candidates) |-> candidates[Len(candidates) + 1 - i]] IN
    IF Len(candidates) = 0 THEN Null ELSE NearestLoop(center, reversed, Null)

Nearest(center, series) ==
  LET candidates == Candidates(series) IN
    IF Len(candidates) = 0 THEN Null ELSE NearestLoop(center, candidates, Null)

\* data?.value?.timeSeries?.[0]?.values?.[0]?.value ?? []
LevelPoints(data) == IF Has(data, "points") THEN data.points ELSE <<>>

\* lines 79-81; a reading whose value is NaN has no value key
Readings(points) ==
  LET rs == [i \in 1..Len(points) |->
               [timestamp |-> IF Has(points[i], "dateTime") THEN points[i].dateTime ELSE ""]
                 @@ OptField(points[i], "value", "value")] IN
    SelectSeq(rs, LAMBDA r : Has(r, "value"))

findNearestUsgsGage(center) ==
  /\ op = "none"
  /\ op' = "findNearestUsgsGage"
  /\ args' = [center |-> center]
  /\ task' = [task EXCEPT !["findNearestUsgsGage"] = [st |-> "awaitFetch"]]
  /\ requests' = [requests EXCEPT !["usgs-water"] = @ + 1]
  /\ result' = [st |-> "pending"]
  /\ UNCHANGED settled

fetchGageLevels(siteCode) ==
  /\ op = "none"
  /\ op' = "fetchGageLevels"
  /\ args' = [siteCode |-> siteCode]
  /\ task' = [task EXCEPT !["fetchGageLevels"] = [st |-> "awaitFetch"]]
  /\ requests' = [requests EXCEPT !["usgs-water"] = @ + 1]
  /\ result' = [st |-> "pending"]
  /\ UNCHANGED settled

\* findNearestUsgsGage from `await res.json()` on
GageJson(data) ==
  LET t == "findNearestUsgsGage" IN
  /\ task[t].st = "awaitJson"
  /\ Settle(t,
       IF data.kind = "invalid"
       THEN [st |-> "rejected", res |-> task[t].res, error |-> [name |-> "SyntaxError"]]
       ELSE [st |-> "resolved", res |-> task[t].res, body |-> data,
             value |-> Nearest(args.center, GageSeries(data))])
  /\ UNCHANGED <<op, args, requests, route, subscribers>>

\* fetchGageLevels from `await res.json()` on
LevelsJson(data) ==
  LET t == "fetchGageLevels" IN
  /\ task[t].st = "awaitJson"
  /\ Settle(t,
       IF data.kind = "invalid"
       THEN [st |-> "rejected", res |-> task[t].res, error |-> [name |-> "SyntaxError"]]
       ELSE [st |-> "resolved", res |-> task[t].res, body |-> data,
             value |-> Readings(LevelPoints(data))])
  /\ UNCHANGED <<op, args, requests, route, subscribers>>

\* ------------------------------------------------------------- risk scorer
\* a / b rounded to the nearest whole number, a >= 0, b > 0
RoundDiv(a, b) == (2 * a + b) \div (2 * b)

\* Scale * e^(-r/d) for 0 <= r <= d by the alternating series
\* 1 - x + x^2/2! - ..., from term number k on
RECURSIVE ExpSeries(_, _, _, _)
ExpSeries(r, d, k, term) ==
  IF term = 0 THEN 0
  ELSE term - ExpSeries(r, d, k + 1, (term * r) \div (d * (k + 1)))

RECURSIVE ExpNegWhole(_)
ExpNegWhole(q) ==
  IF q = 0 THEN Scale
  ELSE RoundDiv(ExpNegWhole(q - 1) * ExpSeries(1, 1, 0, Scale), Scale)

\* Math.exp(-n/d) in multiples of 1/Scale, n >= 0, d > 0
ExpNeg(n, d) ==
  RoundDiv(ExpNegWhole(n \div d) * ExpSeries(n % d, d, 0, Scale), Scale)

\* a rate is the fraction num / den, den > 0
Rate(num, den) == [num |-> num, den |-> den]

\* a scorer that forgets the complement
poissonProbabilityNoComplement(rate) ==
  ExpNeg(Max(0, rate.num), rate.den)

\* lambda = Math.max(0, rate); 1 - Math.exp(-lambda)
poissonProbability(rate) ==
  Scale - ExpNeg(Max(0, rate.num), rate.den)

\* a count of droughts that takes the ice events in
CountIceAsDrought(cat, title) ==
  (IF title \in DOMAIN cat THEN cat[title] ELSE 0)
    + (IF title = "Drought" /\ "Sea and Lake Ice" \in DOMAIN cat
       THEN cat["Sea and Lake Ice"] ELSE 0)

\* cat[title] ?? 0
Count(cat, title) == IF title \in DOMAIN cat THEN cat[title] ELSE 0

\* a storm count that leaves the cyclones out
severeStormCountStormsOnly(cat) == Count(cat, "Severe Storms")

severeStormCount(cat) == Count(cat, "Severe Storms") + Count(cat, "Tropical Cyclones")

\* weights that favour wildfires over floods
weightsHeavyWildfire ==
  [earthquake |-> 30, wildfire |-> 25, severeStorm |-> 20, volcano |-> 5,
   flood |-> 10, landslide |-> 5, drought |-> 5]

\* in hundredths
weights ==
  [earthquake |-> 30, wildfire |-> 15, severeStorm |-> 20, volcano |-> 5,
   flood |-> 20, landslide |-> 5, drought |-> 5]

RiskCategories == DOMAIN weights

\* overall is a whole multiple of 1/OverallOne
OverallOne == Scale * 100

computeRisk(summary) ==
  LET years == Max(1, summary.lookbackYears)
      cat == summary.counts.eonetByCategory
      prob == [earthquake |-> poissonProbability(Rate(summary.counts.earthquakes, years)),
               wildfire |-> poissonProbability(Rate(Count(cat, "Wildfires"), years)),
               severeStorm |-> poissonProbability(Rate(severeStormCount(cat), years)),
               volcano |-> poissonProbability(Rate(Count(cat, "Volcanoes"), years)),
               flood |-> poissonProbability(Rate(Count(cat, "Floods"), years)),
               landslide |-> poissonProbability(Rate(Count(cat, "Landslides"), years)),
               drought |-> poissonProbability(Rate(Count(cat, "Drought"), years))] IN
    prob @@ [overall |->
               prob.earthquake * weights.earthquake + prob.wildfire * weights.wildfire
               + prob.severeStorm * weights.severeStorm + prob.volcano * weights.volcano
               + prob.flood * weights.flood + prob.landslide * weights.landslide
               + prob.drought * weights.drought]

Business(level) ==
  CASE level = "low" ->
         "Favorable: proceed with normal due diligence. Maintain basic insurance."
    [] level = "moderate" ->
         "Caution: proceed with mitigation (insurance, resilient siting, backup power)."
    [] OTHER ->
         "High risk: consider alternative locations or invest in robust mitigation."

Home(level) ==
  CASE level = "low" -> "Suitable for residence. Keep emergency kit and plans."
    [] level = "moderate" -> "Assess building codes, elevation, and retrofit options."
    [] OTHER -> "High exposure. Prefer elevated/retrofitted structures and robust insurance."

\* an advice whose lower boundary belongs to "low"
summarizeAdviceInclusive(risk) ==
  LET level == IF 10 * risk.overall <= 2 * OverallOne THEN "low"
               ELSE IF 10 * risk.overall < 5 * OverallOne THEN "moderate"
               ELSE "high" IN
    [business |-> Business(level), home |-> Home(level), level |-> level]

\* overall < 0.2, overall < 0.5
summarizeAdvice(risk) ==
  LET level == IF 10 * risk.overall < 2 * OverallOne THEN "low"
               ELSE IF 10 * risk.overall < 5 * OverallOne THEN "moderate"
               ELSE "high" IN
    [business |-> Business(level), home |-> Home(level), level |-> level]

\* ------------------------------------------------------------ river trend
\* readings.slice(-12)
TrendWindow == 12

\* the floor of 0.1 h under the elapsed time, in minutes
FloorMinutes == 6

\* new Date(timestamp).getTime() in minutes after 2024-06-01T00:00; a string
\* that is no date (the empty string among them) has no entry: NaN
TimeTable ==
  ( "2024-06-01T00:00" :> 0 @@ "2024-06-01T00:03" :> 3 @@ "2024-06-01T03:00" :> 180 @@
    "2024-06-01T06:00" :> 360 )

getTime(timestamp) ==
  IF timestamp \in DOMAIN TimeTable THEN [t |-> TimeTable[timestamp]] ELSE EmptyMap

\* s.slice(-n)
SliceLast(s, n) == SubSeq(s, Max(1, Len(s) - n + 1), Len(s))

\* (num / den).toFixed(2), den > 0: the sign, then the hundredths of the
\* magnitude rounded to the nearest, halves up
toFixed2(num, den) ==
  [negative |-> num < 0, hundredths |-> (200 * Abs(num) + den) \div (2 * den)]

\* lines 85-87
InsufficientData(site, readings) ==
  [site |-> site, readings |-> readings, rising |-> FALSE,
   riseRatePerHour |-> [num |-> 0, den |-> 1],
   message |-> [text |-> "Insufficient data"]]

\* lines 89-100 on the window `recent`.  Values are in hundredths and times
\* in minutes, so the rate per hour is the fraction 60 * delta / (100 * mins).
\* A NaN (a timestamp that is no date, a value that is no number) makes hours,
\* delta or rate NaN: the rate and the number of the message have no key, and
\* `rate > 0.01` is false.
TrendOfWindow(site, recent) ==
  LET first == getTime(recent[1].timestamp)
      last == getTime(recent[Len(recent)].timestamp)
      finite == /\ Has(first, "t") /\ Has(last, "t")
                /\ Has(recent[1], "value") /\ Has(recent[Len(recent)], "value") IN
    IF ~finite
    THEN [site |-> site, readings |-> recent, rising |-> FALSE,
          message |-> [text |-> "River level stable/falling (~# per hour)"]]
    ELSE LET mins == Max(FloorMinutes, last.t - first.t)
             delta == recent[Len(recent)].value - recent[1].value
             rate == [num |-> 60 * delta, den |-> 100 * mins]
             rising == rate.num * 100 > rate.den IN
           [site |-> site, readings |-> recent, rising |-> rising,
            riseRatePerHour |-> rate,
            message |-> [text |-> IF rising THEN "River level rising at ~# per hour"
                                  ELSE "River level stable/falling (~# per hour)",
                         number |-> toFixed2(rate.num, rate.den)]]

\* a trend that only gives up on an empty list
analyzeRiverTrendOneIsEnough(site, readings) ==
  IF Len(readings) < 1 THEN InsufficientData(site, readings)
  ELSE TrendOfWindow(site, SliceLast(readings, TrendWindow))

analyzeRiverTrend(site, readings) ==
  IF Len(readings) < 2 THEN InsufficientData(site, readings)
  ELSE TrendOfWindow(site, SliceLast(readings, TrendWindow))

\* ---------------------------------------------------------- stability score
\* data.years.slice(-20)
StabilityWindow == 20

RECURSIVE GCD(_, _)
GCD(a, b) == IF b = 0 THEN a ELSE GCD(b, a % b)

\* the fraction a / b, b > 0, in lowest terms
Frac(a, b) ==
  LET g == GCD(Abs(a), b) IN [num |-> a \div g, den |-> b \div g]

RECURSIVE SumOf(_, _)
SumOf(f, S) ==
  IF S = {} THEN 0
  ELSE LET x == CHOOSE y \in S : TRUE IN f[x] + SumOf(f, S \ {x})

\* the positions of the window that hold a number under key k (typeof y ===
\* 'number'; null is a missing key), counted from 0 as xs is
NumericAt(years, k) == {i \in 0..(Len(years) - 1) : Has(years[i + 1], k)}

\* slope(ys) of lines 383-395 for the values under key k, as sxy / sxx with
\* both sums multiplied by n * n: x - meanX becomes n * x - (sum of x)
slope(years, k) ==
  LET pts == NumericAt(years, k)
      n == Cardinality(pts)
      sumX == SumOf([i \in pts |-> i], pts)
      sumY == SumOf([i \in pts |-> years[i + 1][k]], pts)
      sxx == SumOf([i \in pts |-> (n * i - sumX) * (n * i - sumX)], pts)
      sxy == SumOf([i \in pts |-> (n * i - sumX) * (n * years[i + 1][k] - sumY)], pts) IN
    IF n < 2 THEN Frac(0, 1)
    ELSE IF sxx = 0 THEN Frac(0, 1)
    ELSE Frac(sxy, sxx)

\* relPSlope of lines 399-403: pSlope / pMean when pMean > 0, else 0
relPSlope(years) ==
  LET pts == NumericAt(years, "average_precip_mm")
      sum == SumOf([i \in pts |-> years[i + 1].average_precip_mm], pts)
      pSlope == slope(years, "average_precip_mm") IN
    IF pts # {} /\ sum > 0
    THEN Frac(pSlope.num * Cardinality(pts), pSlope.den * sum)
    ELSE Frac(0, 1)

\* piece(x, lo, hi) with lo and hi in hundredths
piece(x, lo, hi) ==
  IF 100 * Abs(x.num) <= lo * x.den THEN Frac(0, 1)
  ELSE IF 100 * Abs(x.num) >= hi * x.den THEN Frac(1, 1)
  ELSE Frac(100 * Abs(x.num) - lo * x.den, (hi - lo) * x.den)

\* a temperature penalty that starts at 0.01 a year
tempPenaltyEarly(tSlope) == piece(tSlope, 1, 5)

\* the temperatures are in hundredths of a degree
tempPenalty(tSlope) == piece(tSlope, 2, 5)

\* a precipitation penalty that counts wetting as much as drying
precipPenaltySymmetric(rel) == piece(rel, 1, 3)

\* Math.max(dryingPen, wettingPen)
precipPenalty(rel) ==
  LET dryingPen == piece(Frac(Min(0, rel.num), rel.den), 1, 3)
      w == piece(Frac(Max(0, rel.num), rel.den), 1, 3)
      wettingPen == Frac(w.num, 2 * w.den) IN
    IF dryingPen.num * wettingPen.den >= wettingPen.num * dryingPen.den
    THEN dryingPen ELSE wettingPen

\* a penalty that counts temperature and precipitation alike
overallPenaltyEven(tp, pp) ==
  Frac(5 * tp.num * pp.den + 5 * pp.num * tp.den, 10 * tp.den * pp.den)

\* 0.6 * tempPenalty + 0.4 * precipPenalty
overallPenalty(tp, pp) ==
  Frac(6 * tp.num * pp.den + 4 * pp.num * tp.den, 10 * tp.den * pp.den)

\* Math.max(0, Math.min(100, Math.round(100 * (1 - overall)))); Math.round
\* is the floor of the value plus one half
scoreOf(overall) ==
  Max(0, Min(100, (200 * (overall.den - overall.num) + overall.den) \div (2 * overall.den)))

\* the locals of computeStabilityScore past the test for an empty window
StabilityLocals(window) ==
  LET tSlope == slope(window, "average_temperature_c")
      tSlopeC == Frac(tSlope.num, 100 * tSlope.den)
      rel == relPSlope(window)
      tp == tempPenalty(tSlopeC)
      pp == precipPenalty(rel)
      overall == overallPenalty(tp, pp) IN
    [tSlope |-> tSlopeC, relPSlope |-> rel, tempPenalty |-> tp, precipPenalty |-> pp,
     overall |-> overall, score |-> scoreOf(overall)]

\* a score that does not look for an empty window
computeStabilityScoreUnguarded(years) ==
  StabilityLocals(SliceLast(years, StabilityWindow)).score

computeStabilityScore(years) ==
  LET window == SliceLast(years, StabilityWindow) IN
    IF Len(window) = 0 THEN 0 ELSE StabilityLocals(window).score

\* StabilityCard's text for a score; null is the record without a score
interpretation(score) ==
  IF ~Has(score, "score") THEN "Insufficient data"
  ELSE IF score.score >= 80 THEN "Stable climate conditions"
  ELSE IF score.score >= 40 THEN "Noticeable warming/drying trend"
  ELSE "Highly unstable conditions"

\* ------------------------------------------------------- the HTTP boundary
\* Number(str) for the strings used here: [n |-> k] for a finite number,
\* [infinite |-> TRUE] for Infinity, the empty record for NaN.  The empty
\* string converts to 0; text that is no numeral converts to NaN.
NumberTable ==
  ( "" :> 0 @@ "0" :> 0 @@ "1" :> 1 @@ "5" :> 5 @@ "50" :> 50 @@ "91" :> 91 @@
    "-91" :> -91 @@ "120" :> 120 @@ "181" :> 181 @@ "-181" :> -181 @@ "500" :> 500 @@
    "-1" :> -1 )

Number(str) ==
  IF str \in DOMAIN NumberTable THEN [n |-> NumberTable[str]]
  ELSE IF str = "Infinity" THEN [infinite |-> TRUE]
  ELSE EmptyMap

\* String(n), as a template literal writes a number
StringTable ==
  ( 0 :> "0" @@ 1 :> "1" @@ 5 :> "5" @@ 50 :> "50" @@ 120 :> "120" @@ 181 :> "181" @@
    500 :> "500" )

isFinite(num) == Has(num, "n")

\* parseNumber(searchParams.get(k) ?? undefined, fallback): a parameter that
\* is absent is a missing key of the query q
parseNumber(q, k, fallback) ==
  IF ~Has(q, k) THEN fallback
  ELSE LET num == Number(q[k]) IN IF isFinite(num) THEN num ELSE fallback

\* parseLatLng(searchParams.get("lat") ?? undefined, searchParams.get("lng") ?? undefined)
parseLatLng(q) ==
  IF ~Has(q, "lat") \/ ~Has(q, "lng") THEN Null
  ELSE LET lat == parseNumber(q, "lat", EmptyMap)
           lng == parseNumber(q, "lng", EmptyMap) IN
         IF ~isFinite(lat) \/ ~isFinite(lng) THEN Null
         ELSE IF lat.n < -90 \/ lat.n > 90 \/ lng.n < -180 \/ lng.n > 180 THEN Null
         ELSE [lat |-> lat.n, lng |-> lng.n]

\* Query strings of the routes: complete, with defaults, with an empty lat,
\* with unusable radiusKm and years, with lat or lng absent, not a number,
\* infinite or out of range, and with radiusKm and years zero or negative.
QueryPool ==
  { [lat |-> "1", lng |-> "1", radiusKm |-> "120", years |-> "5"],
    [lat |-> "0", lng |-> "0"],
    [lat |-> "", lng |-> "1"],
    [lat |-> "1", lng |-> "1", radiusKm |-> "abc", years |-> "Infinity"],
    [lng |-> "1"],
    [lat |-> "1"],
    [lat |-> "abc", lng |-> "1"],
    [lat |-> "1", lng |-> "Infinity"],
    [lat |-> "91", lng |-> "1"],
    [lat |-> "-91", lng |-> "1"],
    [lat |-> "1", lng |-> "181"],
    [lat |-> "1", lng |-> "-181", radiusKm |-> "120"],
    [lat |-> "1", lng |-> "1", radiusKm |-> "0", years |-> "0"],
    [lat |-> "0", lng |-> "0", radiusKm |-> "-1", years |-> "-1"] }

\* Entries of the subscriber registry: POST /api/subscribe stores lat and lng
\* when they are finite numbers, whatever their range
SubscriberPool ==
  { [email |-> "a@x", lat |-> 1, lng |-> 1, radiusKm |-> 50],
    [email |-> "b@x", lat |-> 500, lng |-> 1, radiusKm |-> 50],
    [email |-> "c@x", lat |-> 0, lng |-> 181, radiusKm |-> 120] }

\* /api/advice?lat=${lat}&lng=${lng}&radiusKm=${radiusKm}&years=5
NotifyAdviceQuery(s) ==
  [lat |-> StringTable[s.lat], lng |-> StringTable[s.lng],
   radiusKm |-> StringTable[s.radiusKm], years |-> "5"]

\* /api/river?lat=${lat}&lng=${lng}
NotifyRiverQuery(s) == [lat |-> StringTable[s.lat], lng |-> StringTable[s.lng]]

\* the operation of the core is over
Reset ==
  /\ op' = "none"
  /\ args' = EmptyMap
  /\ task' = [t \in Tasks |-> Idle]
  /\ requests' = [s \in Sources |-> 0]
  /\ settled' = <<>>
  /\ result' = [st |-> "none"]

Core == <<op, args, task, requests, settled, result>>

Respond(status, body) ==
  [route EXCEPT !.pc = "done"] @@ [response |-> [status |-> status, body |-> body]]

InvalidLatLng(name, q) ==
  [name |-> name, query |-> q, pc |-> "done", calls |-> <<>>,
   response |-> [status |-> 400, body |-> [error |-> "Invalid lat/lng"]]]

\* the catch block: e.message
ServerError == Respond(500, [error |-> result.error])

SummaryCall(latlng, radiusKm, years) ==
  [fn |-> "buildHazardsSummary", center |-> latlng, radiusKm |-> radiusKm,
   lookbackYears |-> years]

\* GET /api/hazards up to its await
HazardsRoute(q) ==
  /\ op = "none"
  /\ route = NoRoute
  /\ UNCHANGED subscribers
  /\ LET latlng == parseLatLng(q)
         radiusKm == parseNumber(q, "radiusKm", [n |-> 100]).n
         years == parseNumber(q, "years", [n |-> 5]).n IN
       IF latlng = Null
       THEN route' = InvalidLatLng("hazards", q) /\ UNCHANGED Core
       ELSE /\ buildHazardsSummary(latlng, radiusKm, years)
            /\ route' = [name |-> "hazards", query |-> q, pc |-> "awaitSummary",
                         calls |-> <<SummaryCall(latlng, radiusKm, years)>>]

\* GET /api/hazards from its await on
HazardsRouteResume ==
  /\ route.name = "hazards"
  /\ route.pc = "awaitSummary"
  /\ UNCHANGED subscribers
  /\ result.st \in {"returned", "threw"}
  /\ route' = IF result.st = "threw" THEN ServerError ELSE Respond(200, result.value)
  /\ Reset

\* GET /api/advice up to its await
AdviceRoute(q) ==
  /\ op = "none"
  /\ route = NoRoute
  /\ UNCHANGED subscribers
  /\ LET latlng == parseLatLng(q)
         radiusKm == parseNumber(q, "radiusKm", [n |-> 100]).n
         years == parseNumber(q, "years", [n |-> 5]).n IN
       IF latlng = Null
       THEN route' = InvalidLatLng("advice", q) /\ UNCHANGED Core
       ELSE /\ buildHazardsSummary(latlng, radiusKm, years)
            /\ route' = [name |-> "advice", query |-> q, pc |-> "awaitSummary",
                         calls |-> <<SummaryCall(latlng, radiusKm, years)>>]

\* GET /api/advice from its await on
AdviceRouteResume ==
  /\ route.name = "advice"
  /\ route.pc = "awaitSummary"
  /\ UNCHANGED subscribers
  /\ result.st \in {"returned", "threw"}
  /\ IF result.st = "threw" THEN route' = ServerError
     ELSE LET summary == result.value
              risk == computeRisk(summary)
              advice == summarizeAdvice(risk) IN
            route' = [Respond(200, [risk |-> risk, advice |-> advice, summary |-> summary])
                        EXCEPT !.calls = @ \o <<[fn |-> "computeRisk"],
                                                [fn |-> "summarizeAdvice"]>>]
  /\ Reset

\* GET /api/river up to its first await
RiverRoute(q) ==
  /\ op = "none"
  /\ route = NoRoute
  /\ UNCHANGED subscribers
  /\ LET latlng == parseLatLng(q) IN
       IF latlng = Null
       THEN route' = InvalidLatLng("river", q) /\ UNCHANGED Core
       ELSE /\ findNearestUsgsGage(latlng)
            /\ route' = [name |-> "river", query |-> q, pc |-> "awaitGage",
                         calls |-> <<[fn |-> "findNearestUsgsGage", center |-> latlng]>>]

\* a river route that reads gage.siteCode without looking at gage
RiverRouteGageUnchecked ==
  /\ route.name = "river"
  /\ route.pc = "awaitGage"
  /\ UNCHANGED subscribers
  /\ result.st \in {"returned", "threw"}
  /\ route' = IF result.st = "threw" THEN ServerError
              ELSE IF result.value = Null
              THEN Respond(500, [error |-> [name |-> "TypeError"]]) @@ [gage |-> Null]
              ELSE [route EXCEPT !.pc = "callLevels"] @@ [gage |-> result.value]
  /\ Reset

\* GET /api/river when findNearestUsgsGage has settled: `if (!gage) return ... 404`
RiverRouteGage ==
  /\ route.name = "river"
  /\ route.pc = "awaitGage"
  /\ UNCHANGED subscribers
  /\ result.st \in {"returned", "threw"}
  /\ route' = IF result.st = "threw" THEN ServerError
              ELSE IF result.value = Null
              THEN Respond(404, [error |-> "No gage found nearby"]) @@ [gage |-> Null]
              ELSE [route EXCEPT !.pc = "callLevels"] @@ [gage |-> result.value]
  /\ Reset

\* ... and goes on to `await fetchGageLevels(gage.siteCode)`
RiverRouteLevels ==
  /\ route.name = "river"
  /\ route.pc = "callLevels"
  /\ UNCHANGED subscribers
  /\ fetchGageLevels(route.gage.siteCode)
  /\ route' = [route EXCEPT !.pc = "awaitLevels",
                            !.calls = Append(@, [fn |-> "fetchGageLevels",
                                                 siteCode |-> route.gage.siteCode])]

\* GET /api/river when fetchGageLevels has settled
RiverRouteTrend ==
  /\ route.name = "river"
  /\ route.pc = "awaitLevels"
  /\ UNCHANGED subscribers
  /\ result.st \in {"returned", "threw"}
  /\ route' = IF result.st = "threw" THEN ServerError
              ELSE [Respond(200, analyzeRiverTrend(route.gage, result.value))
                      EXCEPT !.calls = Append(@, [fn |-> "analyzeRiverTrend"])]
  /\ Reset

\* the notification script replays a subscriber's coordinates
NotifyAdvice(s) == AdviceRoute(NotifyAdviceQuery(s))

NotifyRiver(s) == RiverRoute(NotifyRiverQuery(s))

\* the response is sent
RouteFinish ==
  /\ route # NoRoute
  /\ route.pc = "done"
  /\ UNCHANGED subscribers
  /\ route' = NoRoute
  /\ UNCHANGED Core

\* the caller has its answer; the next operation starts from scratch
Finish ==
  /\ result.st \in {"returned", "threw"}
  /\ route = NoRoute
  /\ Reset
  /\ UNCHANGED <<route, subscribers>>

Next ==
  \/ \E c \in Centers, r \in RadiusSet, y \in LookbackSet :
       route = NoRoute /\ buildHazardsSummary(c, r, y) /\ UNCHANGED <<route, subscribers>>
  \/ \E t \in Tasks, s \in Statuses : FetchResponds(t, s)
  \/ \E t \in Tasks : FetchFails(t)
  \/ \E d \in EonetBodies : EonetJson(d)
  \/ \E d \in QuakeBodies : QuakeJson(d)
  \/ \E c \in Centers : route = NoRoute /\ findNearestUsgsGage(c) /\ UNCHANGED <<route, subscribers>>
  \/ \E c \in SiteCodes : route = NoRoute /\ fetchGageLevels(c) /\ UNCHANGED <<route, subscribers>>
  \/ \E d \in GageBodies : GageJson(d)
  \/ \E d \in LevelBodies : LevelsJson(d)
  \/ Finish
  \/ \E q \in QueryPool : HazardsRoute(q)
  \/ HazardsRouteResume
  \/ \E q \in QueryPool : AdviceRoute(q)
  \/ AdviceRouteResume
  \/ \E q \in QueryPool : RiverRoute(q)
  \/ RiverRouteGage
  \/ RiverRouteLevels
  \/ RiverRouteTrend
  \/ \E s \in SubscriberPool : NotifyAdvice(s)
  \/ \E s \in SubscriberPool : NotifyRiver(s)
  \/ RouteFinish

Spec == Init /\ [][Next]_vars

\* ---------------------------------------- the subscribe route and its registry
MaxClock == 2

\* values of a JSON body: numbers, 1e999 (which JSON.parse reads as Infinity),
\* strings and null; a key the body lacks is undefined
Num(n) == [num |-> n]

Infinite == [inf |-> TRUE]

Str(s) == [str |-> s]

\* a body req.json() cannot parse
Unparsable == [syntaxError |-> TRUE]

\* bodies of POST /api/subscribe: JSON objects, a JSON number, null, and text
\* that is not JSON
BodyPool ==
  { [email |-> Str("a@x"), lat |-> Num(1), lng |-> Num(1), radiusKm |-> Num(120)],
    [email |-> Str("a@x"), lat |-> Num(0), lng |-> Num(0)],
    [email |-> Str("b@x"), lat |-> Num(1), lng |-> Num(1), radiusKm |-> Str("120")],
    [email |-> Str("b@x"), lat |-> Num(500), lng |-> Num(1), radiusKm |-> Infinite],
    [lat |-> Num(1), lng |-> Num(1), radiusKm |-> Num(120)],
    [email |-> Num(5), lat |-> Num(1), lng |-> Num(1)],
    [email |-> Null, lat |-> Num(1), lng |-> Num(1)],
    [email |-> Str(""), lat |-> Num(1), lng |-> Num(1)],
    [email |-> Str("a@x"), lng |-> Num(1)],
    [email |-> Str("a@x"), lat |-> Str("1"), lng |-> Num(1)],
    [email |-> Str("b@x"), lat |-> Num(1), lng |-> Null],
    [email |-> Str("b@x"), lat |-> Num(1), lng |-> Infinite],
    Num(5),
    Null,
    Unparsable }

\* !email || typeof email !== "string"
EmailRequired(body) == ~(Has(body, "email") /\ Has(body.email, "str") /\ body.email.str # "")

\* Number.isFinite(v): a number that is not Infinity, and nothing else
NumberIsFinite(body, k) == Has(body, k) /\ Has(body[k], "num")

\* subscribers.set(email, v): the entry of a key the Map holds is replaced
\* where it stands, a new key is added at the end
MapSet(m, email, v) ==
  IF \E i \in 1..Len(m) : m[i].email = email
  THEN [i \in 1..Len(m) |-> IF m[i].email = email THEN [email |-> email] @@ v ELSE m[i]]
  ELSE Append(m, [email |-> email] @@ v)

SubscribeResponse(method, body, status, json) ==
  [name |-> "subscribe", method |-> method, query |-> EmptyMap, body |-> body,
   pc |-> "done", calls |-> <<>>, response |-> [status |-> status, body |-> json]]

\* POST /api/subscribe; now is what Date.now() returns
SubscribePost(body, now) ==
  /\ op = "none"
  /\ route = NoRoute
  /\ IF body = Unparsable
     THEN /\ route' = SubscribeResponse("POST", body, 500, [error |-> [name |-> "SyntaxError"]])
          /\ UNCHANGED subscribers
     ELSE IF body = Null
     THEN /\ route' = SubscribeResponse("POST", body, 500, [error |-> [name |-> "TypeError"]])
          /\ UNCHANGED subscribers
     ELSE IF EmailRequired(body)
     THEN /\ route' = SubscribeResponse("POST", body, 400, [error |-> "Email required"])
          /\ UNCHANGED subscribers
     ELSE IF ~NumberIsFinite(body, "lat") \/ ~NumberIsFinite(body, "lng")
     THEN /\ route' = SubscribeResponse("POST", body, 400, [error |-> "Invalid coordinates"])
          /\ UNCHANGED subscribers
     ELSE LET finalRadius == IF NumberIsFinite(body, "radiusKm") THEN body.radiusKm.num ELSE 50 IN
            /\ subscribers' = MapSet(subscribers, body.email.str,
                                     [lat |-> body.lat.num, lng |-> body.lng.num,
                                      radiusKm |-> finalRadius, createdAt |-> now])
            /\ route' = SubscribeResponse("POST", body, 200, [ok |-> TRUE]) @@ [now |-> now]
  /\ UNCHANGED Core

\* GET /api/subscribe
SubscribeGet ==
  /\ op = "none"
  /\ route = NoRoute
  /\ route' = SubscribeResponse("GET", EmptyMap, 200, [subscribers |-> subscribers])
  /\ UNCHANGED subscribers
  /\ UNCHANGED Core

\* upstream bodies with at most one element
Short(bodies, k) == {d \in bodies : Has(d, k) => Len(d[k]) <= 1}

\* the registry is written by POSTs and read by GET; the notification script
\* takes the subscribers from GET and asks advice and river for each; any
\* client asks for hazards
NextRegistry ==
  \/ \E body \in BodyPool, now \in 1..MaxClock : SubscribePost(body, now)
  \/ SubscribeGet
  \/ \E i \in 1..Len(subscribers) : NotifyAdvice(subscribers[i])
  \/ \E i \in 1..Len(subscribers) : NotifyRiver(subscribers[i])
  \/ \E i \in 1..Len(subscribers) : HazardsRoute(NotifyAdviceQuery(subscribers[i]))
  \/ HazardsRouteResume
  \/ AdviceRouteResume
  \/ RiverRouteGage
  \/ RiverRouteLevels
  \/ RiverRouteTrend
  \/ \E t \in Tasks, s \in {200, 503} : FetchResponds(t, s)
  \/ \E t \in Tasks : FetchFails(t)
  \/ \E d \in Short(EonetBodies, "events") : EonetJson(d)
  \/ \E d \in Short(QuakeBodies, "features") : QuakeJson(d)
  \/ \E d \in Short(GageBodies, "timeSeries") : GageJson(d)
  \/ \E d \in Short(LevelBodies, "points") : LevelsJson(d)
  \/ RouteFinish

SpecRegistry == Init /\ [][NextRegistry]_vars

\* ------------------------------------------------- inputs of the risk scorer
Titles ==
  {"Wildfires", "Severe Storms", "Tropical Cyclones", "Volcanoes", "Floods",
   "Landslides", "Drought", "Sea and Lake Ice"}

\* eonetByCategory as buildHazardsSummary leaves it: the titles seen, each
\* with a count of at least 1
CategoryMaps ==
  UNION {[K -> 1..MaxCount] : K \in {S \in SUBSET Titles : Cardinality(S) <= MaxKeys}}

RiskSummary(years, eq, cat) ==
  [lookbackYears |-> years, counts |-> [earthquakes |-> eq, eonetByCategory |-> cat]]

AllTitlesMap(n) == [t \in Titles |-> n]

\* the two examples of the spec, and every category far beyond one event a year
ExampleSummaries ==
  { RiskSummary(5, 0, "Wildfires" :> 10),
    RiskSummary(5, 15, EmptyMap),
    RiskSummary(1, 12, AllTitlesMap(12)),
    RiskSummary(1, 12, EmptyMap) }
    \cup {RiskSummary(1, 0, t :> 12) : t \in Titles}

RiskSummaries ==
  {RiskSummary(y, e, c) : y \in -1..MaxYears, e \in 0..MaxCount, c \in CategoryMaps}
    \cup ExampleSummaries

Rates == {Rate(n, d) : n \in (-MaxCount)..(4 * MaxCount), d \in 1..MaxYears}

OverallGrid ==
  {k * (OverallOne \div AdviceSteps) : k \in 0..AdviceSteps}
    \cup {OverallOne}
    \cup {(b * OverallOne) \div 10 + e : b \in {2, 5}, e \in {-1, 0, 1}}

RiskBreakdowns ==
  {[c \in RiskCategories |-> p] @@ [overall |-> o] : p \in {0, Scale}, o \in OverallGrid}

\* ---------------------------------------------- the risk scorer, step by step
InitRisk ==
  /\ \/ op = "poissonProbability" /\ args \in {[rate |-> r] : r \in Rates}
     \/ op = "computeRisk" /\ args \in {[summary |-> x] : x \in RiskSummaries}
     \/ op = "riskAdvice" /\ args \in {[summary |-> x] : x \in RiskSummaries}
     \/ op = "summarizeAdvice" /\ args \in {[risk |-> x] : x \in RiskBreakdowns}
  /\ task = [t \in Tasks |-> Idle]
  /\ requests = [s \in Sources |-> 0]
  /\ settled = <<>>
  /\ route = NoRoute
  /\ subscribers = <<>>
  /\ result = [st |-> "pending"]

ApplyPoissonProbability ==
  /\ op = "poissonProbability"
  /\ result.st = "pending"
  /\ result' = [st |-> "returned", value |-> poissonProbability(args.rate)]
  /\ UNCHANGED <<op, args, task, requests, settled, route, subscribers>>

ApplyComputeRisk ==
  /\ op = "computeRisk"
  /\ result.st = "pending"
  /\ result' = [st |-> "returned", value |-> computeRisk(args.summary)]
  /\ UNCHANGED <<op, args, task, requests, settled, route, subscribers>>

ApplySummarizeAdvice ==
  /\ op = "summarizeAdvice"
  /\ result.st = "pending"
  /\ result' = [st |-> "returned", value |-> summarizeAdvice(args.risk)]
  /\ UNCHANGED <<op, args, task, requests, settled, route, subscribers>>

\* the advice route once it holds the summary: computeRisk, then summarizeAdvice
ApplyRiskAdvice ==
  /\ op = "riskAdvice"
  /\ result.st = "pending"
  /\ LET risk == computeRisk(args.summary) IN
       result' = [st |-> "returned",
                  value |-> [risk |-> risk, advice |-> summarizeAdvice(risk)]]
  /\ UNCHANGED <<op, args, task, requests, settled, route, subscribers>>

NextRisk ==
  \/ ApplyPoissonProbability
  \/ ApplyComputeRisk
  \/ ApplySummarizeAdvice
  \/ ApplyRiskAdvice

SpecRisk == InitRisk /\ [][NextRisk]_vars

\* ------------------------------------------------ the river trend, step by step
MaxReadings == 3

Reading(timestamp, value) == [timestamp |-> timestamp, value |-> value]

\* what fetchGageLevels makes of PointPool, a near-simultaneous and an earlier
\* sample, and a reading whose value is NaN
ReadingPool ==
  { Reading("2024-06-01T00:00", 1000), Reading("2024-06-01T06:00", 1050),
    Reading("", 990), Reading("2024-06-01T00:03", 1001),
    Reading("2024-06-01T03:00", 995), [timestamp |-> "2024-06-01T03:00"] }

Repeat(x, k) == [i \in 1..k |-> x]

\* lists as long as the window and longer: a reading, a run of one reading,
\* a last reading
LongReadings ==
  {<<a>> \o Repeat(p, k) \o <<b>> :
     a \in ReadingPool, p \in ReadingPool, b \in ReadingPool,
     k \in (TrendWindow - 2)..TrendWindow}

ReadingLists == SeqsUpTo(ReadingPool, MaxReadings) \cup LongReadings

GageSites == {ToSite(Info("01", "gage 01", 1, 0).sourceInfo), Null}

InitTrend ==
  /\ op = "analyzeRiverTrend"
  /\ args \in {[site |-> g, readings |-> r] : g \in GageSites, r \in ReadingLists}
  /\ task = [t \in Tasks |-> Idle]
  /\ requests = [s \in Sources |-> 0]
  /\ settled = <<>>
  /\ route = NoRoute
  /\ subscribers = <<>>
  /\ result = [st |-> "pending"]

ApplyAnalyzeRiverTrend ==
  /\ op = "analyzeRiverTrend"
  /\ result.st = "pending"
  /\ result' = [st |-> "returned", value |-> analyzeRiverTrend(args.site, args.readings)]
  /\ UNCHANGED <<op, args, task, requests, settled, route, subscribers>>

NextTrend == ApplyAnalyzeRiverTrend

SpecTrend == InitTrend /\ [][NextTrend]_vars

\* -------------------------------------------- the stability score, step by step
MaxStabilityYears == 3

\* temperatures in hundredths of a degree, precipitation in mm; a key left
\* out is a null average
Year(t, p) == [year |-> 2001, average_temperature_c |-> t, average_precip_mm |-> p]

YearPool ==
  {Year(t, 100) : t \in {1000, 1002, 1004, 1006}}
    \cup {Year(1000, p) : p \in {-100, 102}}
    \cup {[year |-> 2001], [year |-> 2001, average_temperature_c |-> 1006],
          [year |-> 2001, average_precip_mm |-> 102]}

\* n years of temperature rising by step a year from 10.00, precipitation flat
Ramp(n, step) ==
  [i \in 1..n |-> [year |-> 2000 + i, average_temperature_c |-> 1000 + step * (i - 1),
                   average_precip_mm |-> 800]]

\* windows of 20 years, and lists with older years before the window
LongYears ==
  {Ramp(n, step) : n \in {StabilityWindow}, step \in {-6, 0, 2, 3, 6, 40}}
    \cup {<<y>> \o Ramp(StabilityWindow, step) : y \in YearPool, step \in {0, 6}}

YearLists == SeqsUpTo(YearPool, MaxStabilityYears) \cup LongYears

Scores == {[score |-> n] : n \in -1..101} \cup {EmptyMap}

InitStability ==
  /\ \/ op = "computeStabilityScore" /\ args \in {[years |-> y] : y \in YearLists}
     \/ op = "interpretation" /\ args \in {[score |-> x] : x \in Scores}
     \/ op = "StabilityCard" /\ args \in {[years |-> y] : y \in YearLists}
  /\ task = [t \in Tasks |-> Idle]
  /\ requests = [s \in Sources |-> 0]
  /\ settled = <<>>
  /\ route = NoRoute
  /\ subscribers = <<>>
  /\ result = [st |-> "pending"]

ApplyComputeStabilityScore ==
  /\ op = "computeStabilityScore"
  /\ result.st = "pending"
  /\ result' = [st |-> "returned", value |-> computeStabilityScore(args.years)]
  /\ UNCHANGED <<op, args, task, requests, settled, route, subscribers>>

ApplyInterpretation ==
  /\ op = "interpretation"
  /\ result.st = "pending"
  /\ result' = [st |-> "returned", value |-> interpretation(args.score)]
  /\ UNCHANGED <<op, args, task, requests, settled, route, subscribers>>

\* the dashboard computes the score of the fetched years and hands it to the card
ApplyStabilityCard ==
  /\ op = "StabilityCard"
  /\ result.st = "pending"
  /\ LET score == computeStabilityScore(args.years) IN
       result' = [st |-> "returned",
                  value |-> [score |-> score,
                             interpretation |-> interpretation([score |-> score])]]
  /\ UNCHANGED <<op, args, task, requests, settled, route, subscribers>>

NextStability ==
  \/ ApplyComputeStabilityScore
  \/ ApplyInterpretation
  \/ ApplyStabilityCard

SpecStability == InitStability /\ [][NextStability]_vars

\* ================================================================== claims
Building == op = "buildHazardsSummary"

Eonet == task["fetchEonetEvents"]

Quake == task["fetchEarthquakes"]

Returned == Building /\ result.st = "returned"

\* C1: whenever a fetcher of buildHazardsSummary has failed, the aggregation
\* has failed with the error of a failed fetcher and holds no summary, also
\* when the other fetcher has succeeded or is still pending.
C1_FailFast ==
  (Building /\ \E t \in HazardTasks : Rejected(t)) =>
    /\ result.st = "threw"
    /\ ~Has(result, "value")
    /\ \E t \in HazardTasks : Rejected(t) /\ result.error = task[t].error

C1_Witness ==
  /\ Building
  /\ Rejected("fetchEonetEvents")
  /\ Has(Eonet.error, "status")
  /\ Resolved("fetchEarthquakes")
  /\ Len(Quake.value) > 0
  /\ result.st = "threw"

\* C2: during buildHazardsSummary both fetchers have been started (none waits
\* for the other), and a summary exists only when both have resolved.
C2_ConcurrentThenTally ==
  Building =>
    /\ \A t \in HazardTasks : task[t].st # "idle"
    /\ result.st = "returned" => \A t \in HazardTasks : Resolved(t)

\* the fetcher started second completes first, then the summary is built
C2_Witness ==
  /\ Returned
  /\ settled = <<"fetchEarthquakes", "fetchEonetEvents">>

\* C3: an operation sends each upstream source at most one request, also
\* after a failed response.
C3_NoRetries == \A s \in Sources : requests[s] <= 1

C3_Witness ==
  /\ op = "fetchGageLevels"
  /\ Rejected("fetchGageLevels")
  /\ Has(task["fetchGageLevels"].error, "status")
  /\ requests["usgs-water"] = 1
  /\ result.st = "threw"

\* C4: a fetching function that received a response that is not ok has
\* failed with the status code in its error, and has produced no value.
C4_NonOkIsError ==
  \A t \in Tasks :
    (Has(task[t], "res") /\ ~ResOk(task[t].res)) =>
      /\ task[t].st = "rejected"
      /\ ~Has(task[t], "value")
      /\ Has(task[t].error, "status")
      /\ task[t].error.status = task[t].res
      /\ op = t => (result.st = "threw" /\ result.error.status = task[t].res)

C4_Witness ==
  /\ op = "findNearestUsgsGage"
  /\ Has(task["findNearestUsgsGage"], "res")
  /\ task["findNearestUsgsGage"].res = 404
  /\ result.st = "threw"

\* the reported positions of an event: the geometry entries with two
\* coordinates, read as (lng, lat)
Positions(ev) ==
  IF ~Has(ev, "geometry") THEN {}
  ELSE {[lat |-> ev.geometry[i].coordinates[2], lng |-> ev.geometry[i].coordinates[1]] :
          i \in {k \in 1..Len(ev.geometry) :
                   Has(ev.geometry[k], "coordinates") /\ Len(ev.geometry[k].coordinates) >= 2}}

InRadius(ev) ==
  \E p \in Positions(ev) : haversineDistanceM(args.center, p) <= 1000 * args.radiusKm

\* the elements of s at the indices K, in the order of s
RECURSIVE Pick(_, _, _)
Pick(s, K, i) ==
  IF i > Len(s) THEN <<>>
  ELSE (IF i \in K THEN <<s[i]>> ELSE <<>>) \o Pick(s, K, i + 1)

\* C5: the result of fetchEonetEvents holds exactly the upstream events with
\* at least one position within radiusKm of center, in the upstream order.
C5_RadiusFilter ==
  Resolved("fetchEonetEvents") =>
    LET up == EonetEvents(Eonet.body) IN
      Eonet.value = Pick(up, {i \in 1..Len(up) : InRadius(up[i])}, 1)

\* the second of two events is kept for a position that is not its last one
C5_Witness ==
  /\ Resolved("fetchEonetEvents")
  /\ Len(EonetEvents(Eonet.body)) = 2
  /\ Eonet.value = <<Eonet.body.events[2]>>
  /\ Len(Eonet.value[1].geometry) = 2
  /\ ~GeometryHit(Eonet.value[1].geometry[2], args.center, args.radiusKm)

\* the (event, category) pairs of the filtered events whose title is t
TitlePairs(evs, t) ==
  UNION {{<<i, j>> : j \in {k \in 1..Len(EvCategories(evs[i])) :
                              EvCategories(evs[i])[k].title = t}} :
           i \in 1..Len(evs)}

AllTitles(evs) ==
  UNION {{EvCategories(evs[i])[j].title : j \in 1..Len(EvCategories(evs[i]))} :
           i \in 1..Len(evs)}

RECURSIVE SumOver(_, _)
SumOver(f, S) ==
  IF S = {} THEN 0
  ELSE LET x == CHOOSE y \in S : TRUE IN f[x] + SumOver(f, S \ {x})

RECURSIVE SumLengths(_)
SumLengths(evs) ==
  IF evs = <<>> THEN 0 ELSE Len(EvCategories(Head(evs))) + SumLengths(Tail(evs))

\* C6: eonetByCategory counts, per title, the (event, category) pairs of the
\* filtered events; its keys are the titles that occur, and the counters add
\* up to the number of category entries.
C6_CategoryTally ==
  Returned =>
    LET evs == Eonet.value
        m == result.value.counts.eonetByCategory IN
      /\ DOMAIN m = AllTitles(evs)
      /\ \A t \in DOMAIN m : m[t] = Cardinality(TitlePairs(evs, t)) /\ m[t] > 0
      /\ SumOver(m, DOMAIN m) = SumLengths(evs)

\* two events share a title, one of them has a second category
C6_Witness ==
  /\ Returned
  /\ Len(Eonet.value) = 2
  /\ Len(EvCategories(Eonet.value[1])) = 2
  /\ \E t \in DOMAIN result.value.counts.eonetByCategory :
       result.value.counts.eonetByCategory[t] = 2

\* C7: a returned summary has one earthquake entry per fetched seismic record
\* and one event entry per filtered natural event, in the same order, and
\* counts.earthquakes is the number of earthquake entries.
C7_SummaryConsistent ==
  Returned =>
    LET v == result.value IN
      /\ v.counts.earthquakes = Len(v.earthquakes)
      /\ Len(v.earthquakes) = Len(Quake.value)
      /\ \A i \in 1..Len(Quake.value) : v.earthquakes[i].id = Quake.value[i].id
      /\ Len(v.eonetEvents) = Len(Eonet.value)
      /\ \A i \in 1..Len(Eonet.value) : v.eonetEvents[i].id = Eonet.value[i].id

C7_Witness ==
  /\ Returned
  /\ Len(result.value.earthquakes) = 2
  /\ result.value.earthquakes[1].id # result.value.earthquakes[2].id
  /\ ~Has(result.value.earthquakes[1], "mag")
  /\ Len(result.value.eonetEvents) = 2
  /\ result.value.eonetEvents[1].id # result.value.eonetEvents[2].id

Scored == op = "computeRisk" /\ result.st = "returned"

\* the titles computeRisk reads
MappedTitles ==
  {"Wildfires", "Severe Storms", "Tropical Cyclones", "Volcanoes", "Floods",
   "Landslides", "Drought"}

\* C8 as stated: overall is within [0,1], and is 0 exactly when
\* counts.earthquakes and every entry of eonetByCategory are 0.
C8_AsStated ==
  Scored =>
    LET c == args.summary.counts IN
      /\ result.value.overall >= 0
      /\ result.value.overall <= OverallOne
      /\ result.value.overall = 0 <=>
           (c.earthquakes = 0 /\ \A t \in DOMAIN c.eonetByCategory : c.eonetByCategory[t] = 0)

\* C8, amended: overall is within [0,1], and is 0 exactly when
\* counts.earthquakes and the counts of the seven titles computeRisk maps to
\* a risk category are 0; other titles may have any count.
C8_OverallRange ==
  Scored =>
    LET c == args.summary.counts IN
      /\ result.value.overall >= 0
      /\ result.value.overall <= OverallOne
      /\ result.value.overall = 0 <=>
           (c.earthquakes = 0 /\ \A t \in MappedTitles : Count(c.eonetByCategory, t) = 0)

\* only a title that computeRisk ignores was counted, and the risk is 0
C8_Witness ==
  /\ Scored
  /\ args.summary.counts.earthquakes = 0
  /\ DOMAIN args.summary.counts.eonetByCategory = {"Sea and Lake Ice"}
  /\ result.value.overall = 0

\* the risk category a count feeds, "none" for a title computeRisk ignores
CategoryOf(k) ==
  CASE k = "earthquakes" -> "earthquake"
    [] k = "Wildfires" -> "wildfire"
    [] k \in {"Severe Storms", "Tropical Cyclones"} -> "severeStorm"
    [] k = "Volcanoes" -> "volcano"
    [] k = "Floods" -> "flood"
    [] k = "Landslides" -> "landslide"
    [] k = "Drought" -> "drought"
    [] OTHER -> "none"

\* the summary with the count k raised by n
Raise(summary, k, n) ==
  LET c == summary.counts IN
    IF k = "earthquakes"
    THEN RiskSummary(summary.lookbackYears, c.earthquakes + n, c.eonetByCategory)
    ELSE RiskSummary(summary.lookbackYears, c.earthquakes,
                     (k :> Count(c.eonetByCategory, k) + n) @@ c.eonetByCategory)

\* C9: raising one count of a summary never lowers the probability of the
\* category it feeds nor overall, and leaves every other category's
\* probability as it was; poissonProbability is 0 for a rate of 0 or less.
C9_Monotone ==
  /\ Scored =>
       \A k \in {"earthquakes"} \cup Titles, n \in 1..MaxCount :
         LET r2 == computeRisk(Raise(args.summary, k, n)) IN
           /\ \A c \in RiskCategories :
                IF c = CategoryOf(k) THEN r2[c] >= result.value[c]
                ELSE r2[c] = result.value[c]
           /\ r2.overall >= result.value.overall
  /\ (op = "poissonProbability" /\ result.st = "returned" /\ args.rate.num <= 0) =>
       result.value = 0

\* one more wildfire in three years raises the wildfire probability and overall
C9_Witness ==
  /\ Scored
  /\ args.summary.lookbackYears = 3
  /\ Count(args.summary.counts.eonetByCategory, "Wildfires") = 1
  /\ result.value.wildfire > 0
  /\ computeRisk(Raise(args.summary, "Wildfires", 1)).wildfire > result.value.wildfire
  /\ computeRisk(Raise(args.summary, "Wildfires", 1)).overall > result.value.overall

Advised == op = "summarizeAdvice" /\ result.st = "returned"

\* C10: level is "low" below 0.2, "moderate" from 0.2 to below 0.5, "high"
\* from 0.5 on; the advice depends on overall only, and a level always comes
\* with the same two sentences.
C10_AdvicePartition ==
  Advised =>
    LET o == args.risk.overall
        v == result.value IN
      /\ v.level \in {"low", "moderate", "high"}
      /\ v.level = "low" <=> 5 * o < OverallOne
      /\ v.level = "moderate" <=> (5 * o >= OverallOne /\ 2 * o < OverallOne)
      /\ v.level = "high" <=> 2 * o >= OverallOne
      /\ \A r2 \in RiskBreakdowns :
           /\ r2.overall = o => summarizeAdvice(r2) = v
           /\ summarizeAdvice(r2).level = v.level =>
                (summarizeAdvice(r2).business = v.business
                   /\ summarizeAdvice(r2).home = v.home)

\* overall is exactly 0.2
C10_Witness ==
  /\ Advised
  /\ 5 * args.risk.overall = OverallOne
  /\ result.value.level = "moderate"

RiskAdvised == op = "riskAdvice" /\ result.st = "returned"

\* x / (k * Scale) is within 2/10000 of t / 10000, for k = 1 or k = 100
About(x, k, t) == Abs((10000 \div k) * x - t * Scale) <= 2 * Scale

\* the count that feeds the risk category c
CountFeeding(summary, c) ==
  IF c = "earthquake" THEN summary.counts.earthquakes
  ELSE SumOver([t \in MappedTitles |->
                  IF CategoryOf(t) = c THEN Count(summary.counts.eonetByCategory, t) ELSE 0],
               MappedTitles)

\* C11: with lookbackYears = 5, ten wildfires alone give the wildfire
\* probability of rate 2, overall about 0.1297 and level "low"; fifteen
\* earthquakes alone give the probability of rate 3, overall about 0.2851 and
\* level "moderate".  A summary with one non-zero category has overall at most
\* that category's weight, and level "low" when the category is wildfire,
\* volcano, landslide or drought.
C11_Examples ==
  RiskAdvised =>
    LET s == args.summary
        r == result.value.risk
        level == result.value.advice.level IN
      /\ s = RiskSummary(5, 0, "Wildfires" :> 10) =>
           /\ r.wildfire = poissonProbability(Rate(2, 1))
           /\ About(r.wildfire, 1, 8647)
           /\ About(r.overall, 100, 1297)
           /\ level = "low"
      /\ s = RiskSummary(5, 15, EmptyMap) =>
           /\ r.earthquake = poissonProbability(Rate(3, 1))
           /\ About(r.earthquake, 1, 9502)
           /\ About(r.overall, 100, 2851)
           /\ level = "moderate"
      /\ \A c \in RiskCategories :
           (\A c2 \in RiskCategories \ {c} : CountFeeding(s, c2) = 0) =>
             /\ 100 * r.overall <= weights[c] * OverallOne
             /\ c \in {"wildfire", "volcano", "landslide", "drought"} => level = "low"

\* the first example of the spec
C11_Witness ==
  /\ RiskAdvised
  /\ args.summary = RiskSummary(5, 0, "Wildfires" :> 10)
  /\ result.value.advice.level = "low"
  /\ result.value.risk.overall > 0

Analyzed == op = "analyzeRiverTrend" /\ result.st = "returned"

\* C12: analyzeRiverTrend with no reading or one reading returns the given
\* site and the given readings, rising = false, a rate of 0 and the message
\* "Insufficient data", whatever the timestamp and value of the reading, and
\* it does not fail.
C12_InsufficientData ==
  (op = "analyzeRiverTrend" /\ Len(args.readings) < 2) =>
    /\ result.st # "threw"
    /\ result.st = "returned" =>
         /\ result.value.site = args.site
         /\ result.value.readings = args.readings
         /\ result.value.rising = FALSE
         /\ Has(result.value, "riseRatePerHour")
         /\ result.value.riseRatePerHour.num = 0
         /\ result.value.message = [text |-> "Insufficient data"]

\* a single reading without a date
C12_Witness ==
  /\ Analyzed
  /\ args.readings = <<Reading("", 990)>>
  /\ result.value.message.text = "Insufficient data"
  /\ result.value.readings = args.readings

\* the last min(n, 12) readings, taken by position
Window(readings) ==
  [i \in 1..Min(Len(readings), 12) |-> readings[Len(readings) - Min(Len(readings), 12) + i]]

FiniteEnds(w) == Has(w[1], "value") /\ Has(w[Len(w)], "value")

Dated(w) == w[1].timestamp \in DOMAIN TimeTable /\ w[Len(w)].timestamp \in DOMAIN TimeTable

\* hours * 60 between the ends of the window, not below 0.1 h
ElapsedMinutes(w) == Max(6, TimeTable[w[Len(w)].timestamp] - TimeTable[w[1].timestamp])

\* the rate r is delta / hours for the window w: r.num / r.den = (delta / 100) / (mins / 60)
RateOfWindow(r, w) ==
  r.num * 100 * ElapsedMinutes(w) = 60 * (w[Len(w)].value - w[1].value) * r.den

\* the rate is above 0.01
AboveThreshold(r) == r.num * 100 > r.den

\* C13 for the readings whose window ends carry dates: the rate is the
\* difference of the window's end values over the hours between them (at
\* least 0.1 h), rising says the rate is above 0.01, and the window is returned.
C13_WindowRate ==
  (Analyzed /\ Len(args.readings) >= 2 /\ FiniteEnds(Window(args.readings))
            /\ Dated(Window(args.readings))) =>
    LET w == Window(args.readings) IN
      /\ result.value.readings = w
      /\ Has(result.value, "riseRatePerHour")
      /\ result.value.riseRatePerHour.den > 0
      /\ RateOfWindow(result.value.riseRatePerHour, w)
      /\ result.value.rising = AboveThreshold(result.value.riseRatePerHour)
      /\ result.value = analyzeRiverTrend(args.site, w)

\* C13: with two or more readings of finite value the rate is the difference
\* of the end values of the window of the last min(n, 12) readings over
\* max(0.1, hours between the window's ends), rising says the rate is above
\* 0.01, the returned readings are the window, and the result is the one the
\* window alone gives.
C13_AsStated ==
  (Analyzed /\ Len(args.readings) >= 2 /\ FiniteEnds(Window(args.readings))) =>
    LET w == Window(args.readings) IN
      /\ result.value.readings = w
      /\ Has(result.value, "riseRatePerHour")
      /\ Dated(w) => RateOfWindow(result.value.riseRatePerHour, w)
      /\ result.value.rising = (Has(result.value, "riseRatePerHour")
                                /\ AboveThreshold(result.value.riseRatePerHour))
      /\ result.value = analyzeRiverTrend(args.site, w)

\* the example, 10.0 then 10.5 six hours later, at the ends of the window of a
\* list of 13 whose first reading is another one
C13_Witness ==
  /\ Analyzed
  /\ Len(args.readings) = 13
  /\ args.readings[1] = Reading("2024-06-01T03:00", 995)
  /\ args.readings[2] = Reading("2024-06-01T00:00", 1000)
  /\ args.readings[13] = Reading("2024-06-01T06:00", 1050)
  /\ result.value.rising
  /\ result.value.riseRatePerHour = [num |-> 3000, den |-> 36000]
  /\ result.value.message.number = [negative |-> FALSE, hundredths |-> 8]
  /\ Len(result.value.readings) = 12

\* readings as fetchGageLevels returns them for some response body
Fetched(readings) ==
  \E d \in LevelBodies : d.kind = "object" /\ readings = Readings(LevelPoints(d))

\* C14: for two or more readings that fetchGageLevels can return, the trend
\* has divided by at least 0.1 h, its rate is a finite number and its message
\* carries that number with two decimals.
C14_AsStated ==
  (Analyzed /\ Len(args.readings) >= 2 /\ Fetched(args.readings)) =>
    /\ Has(result.value, "riseRatePerHour")
    /\ result.value.riseRatePerHour.den >= 100 * 6
    /\ Has(result.value.message, "number")

\* a point without dateTime, then a dated one: the rate is NaN
C14_Witness ==
  /\ Analyzed
  /\ args.readings = <<Reading("", 990), Reading("2024-06-01T06:00", 1050)>>
  /\ Fetched(args.readings)
  /\ ~Has(result.value, "riseRatePerHour")
  /\ ~Has(result.value.message, "number")

Discovered ==
  /\ op = "findNearestUsgsGage"
  /\ result.st = "returned"
  /\ Resolved("findNearestUsgsGage")

\* the time series of the discovery response, empty when the body has none
SeriesOf(body) == IF "timeSeries" \in DOMAIN body THEN body.timeSeries ELSE <<>>

\* the entry reports a station with a latitude and a longitude
Located(ts) ==
  /\ "sourceInfo" \in DOMAIN ts
  /\ "geoLocation" \in DOMAIN ts.sourceInfo
  /\ "geogLocation" \in DOMAIN ts.sourceInfo.geoLocation
  /\ {"latitude", "longitude"} \subseteq DOMAIN ts.sourceInfo.geoLocation.geogLocation

Place(ts) ==
  [lat |-> ts.sourceInfo.geoLocation.geogLocation.latitude,
   lng |-> ts.sourceInfo.geoLocation.geogLocation.longitude]

StationOf(ts) ==
  [siteCode |-> IF "siteCode" \in DOMAIN ts.sourceInfo
                THEN ts.sourceInfo.siteCode[1].value ELSE "",
   siteName |-> ts.sourceInfo.siteName,
   coordinates |-> Place(ts)]

Away(center, ts) == haversineDistanceM(center, Place(ts))

\* the located entries of series that no earlier entry repeats
FirstOfItsKind(series) ==
  {i \in 1..Len(series) :
     /\ Located(series[i])
     /\ \A j \in 1..(i - 1) : series[j] # series[i]}

\* i is the first entry among I at the least distance from center
FirstNearest(center, series, I, i) ==
  /\ i \in I
  /\ \A j \in I : Away(center, series[i]) <= Away(center, series[j])
  /\ \A j \in I : j < i => Away(center, series[j]) > Away(center, series[i])

StabilityScored == op = "computeStabilityScore" /\ result.st = "returned"

\* C17: computeStabilityScore returns a whole number from 0 to 100 for every
\* list of yearly records, whatever its length and its mix of null and
\* numeric averages, and 0 for the empty list.
C17_ScoreRange ==
  StabilityScored =>
    /\ result.value \in 0..100
    /\ args.years = <<>> => result.value = 0

\* precipitation that changes around a mean below zero
C17_Witness ==
  /\ StabilityScored
  /\ args.years = <<Year(1000, -100), Year(1000, 102), Year(1000, -100)>>
  /\ result.value = 100

\* the last min(n, 20) years, by position
LastYears(years) ==
  [i \in 1..Min(Len(years), 20) |-> years[Len(years) - Min(Len(years), 20) + i]]

\* every numeric value under key k is the same
Flat(years, k) ==
  \A i, j \in 1..Len(years) :
    (k \in DOMAIN years[i] /\ k \in DOMAIN years[j]) => years[i][k] = years[j][k]

Complete(years) ==
  \A i \in 1..Len(years) :
    {"average_temperature_c", "average_precip_mm"} \subseteq DOMAIN years[i]

\* least-squares slope of the values under key k against the position, as
\* the pair <<numerator, denominator>> of (n Sxy - Sx Sy) / (n Sxx - Sx Sx)
Numeric(years, k) == {i \in 1..Len(years) : k \in DOMAIN years[i]}

Trend(years, k) ==
  LET P == Numeric(years, k)
      n == Cardinality(P)
      sx == SumOver([i \in P |-> i], P)
      sy == SumOver([i \in P |-> years[i][k]], P)
      sxy == SumOver([i \in P |-> i * years[i][k]], P)
      sxx == SumOver([i \in P |-> i * i], P) IN
    IF n < 2 THEN <<0, 1>> ELSE <<n * sxy - sx * sy, n * sxx - sx * sx>>

\* |temperature slope| <= 0.02 degrees a year, temperatures in hundredths
SlowTemperature(years) ==
  LET t == Trend(years, "average_temperature_c") IN Abs(t[1]) <= 2 * t[2]

\* |precipitation slope / precipitation mean| <= 0.01, the relative slope
\* being 0 when the mean is not positive
SlowPrecipitation(years) ==
  LET t == Trend(years, "average_precip_mm")
      P == Numeric(years, "average_precip_mm")
      sum == SumOver([i \in P |-> years[i].average_precip_mm], P) IN
    sum <= 0 \/ 100 * Abs(t[1]) * Cardinality(P) <= t[2] * sum

\* C18: a non-empty list in which temperature and precipitation are constant
\* scores 100, and so does every list whose temperature slope is within 0.02
\* and whose relative precipitation slope is within 0.01.
C18_FlatIsStable ==
  (StabilityScored /\ args.years # <<>>) =>
    LET w == LastYears(args.years) IN
      /\ (Complete(w) /\ Flat(w, "average_temperature_c") /\ Flat(w, "average_precip_mm"))
           => result.value = 100
      /\ (SlowTemperature(w) /\ SlowPrecipitation(w)) => result.value = 100

\* temperature rising by exactly 0.02 a year, precipitation flat
C18_Witness ==
  /\ StabilityScored
  /\ args.years = <<Year(1000, 100), Year(1002, 100)>>
  /\ result.value = 100

Carded == op = "StabilityCard" /\ result.st = "returned"

\* C19: twenty years of temperature rising by 0.06 a year with flat
\* precipitation give a temperature penalty of 1, a precipitation penalty of
\* 0, an overall penalty of 0.6 and the score 40, which the card reads as
\* "Noticeable warming/drying trend"; the card's bands are 80 and 40; and
\* with flat precipitation the score is never below 40.
C19_WarmingExample ==
  /\ (Carded /\ args.years = Ramp(20, 6)) =>
       LET l == StabilityLocals(args.years) IN
         /\ l.tempPenalty = [num |-> 1, den |-> 1]
         /\ l.precipPenalty.num = 0
         /\ 10 * l.overall.num = 6 * l.overall.den
         /\ result.value.score = 40
         /\ result.value.interpretation = "Noticeable warming/drying trend"
  /\ (op = "interpretation" /\ result.st = "returned" /\ "score" \in DOMAIN args.score) =>
       result.value = IF args.score.score >= 80 THEN "Stable climate conditions"
                      ELSE IF args.score.score >= 40 THEN "Noticeable warming/drying trend"
                      ELSE "Highly unstable conditions"
  /\ (Carded /\ args.years # <<>> /\ Flat(LastYears(args.years), "average_precip_mm")) =>
       /\ result.value.score >= 40
       /\ result.value.interpretation # "Highly unstable conditions"

C19_Witness ==
  /\ Carded
  /\ args.years = Ramp(20, 6)
  /\ result.value.score = 40
  /\ result.value.interpretation = "Noticeable warming/drying trend"

River == route.name = "river"

\* the positions of the route's calls of the core function fn
CallsOf(fn) == {i \in 1..Len(route.calls) : route.calls[i].fn = fn}

\* C16: in the river route fetchGageLevels is called only once
\* findNearestUsgsGage has completed with a site, as the second call and with
\* that site's siteCode, and never while the gage lookup is under way; when
\* findNearestUsgsGage returns null the route answers 404 (not 500) and calls
\* neither fetchGageLevels nor analyzeRiverTrend.
C16_SequentialLookup ==
  River =>
    /\ \A i \in CallsOf("fetchGageLevels") :
         /\ i = 2
         /\ route.calls[1].fn = "findNearestUsgsGage"
         /\ "gage" \in DOMAIN route
         /\ route.gage # Null
         /\ route.calls[i].siteCode = route.gage.siteCode
    /\ op = "fetchGageLevels" =>
         /\ CallsOf("fetchGageLevels") # {}
         /\ args.siteCode = route.gage.siteCode
    /\ op = "findNearestUsgsGage" =>
         /\ task["fetchGageLevels"].st = "idle"
         /\ CallsOf("fetchGageLevels") = {}
    /\ CallsOf("analyzeRiverTrend") # {} => CallsOf("fetchGageLevels") # {}
    /\ ("gage" \in DOMAIN route /\ route.gage = Null) =>
         /\ route.pc = "done"
         /\ route.response.status = 404
         /\ CallsOf("fetchGageLevels") = {}
         /\ CallsOf("analyzeRiverTrend") = {}
         /\ requests["usgs-water"] = 0

\* the levels of the gage found are being fetched
C16_Witness ==
  /\ River
  /\ op = "fetchGageLevels"
  /\ route.gage.siteCode = "01"
  /\ args.siteCode = "01"
  /\ task["fetchGageLevels"].st = "awaitFetch"
  /\ Len(route.calls) = 2

\* the numerals a query can carry, read as decimal numbers
Numerals ==
  ( "0" :> 0 @@ "1" :> 1 @@ "5" :> 5 @@ "50" :> 50 @@ "91" :> 91 @@ "-91" :> -91 @@
    "120" :> 120 @@ "181" :> 181 @@ "-181" :> -181 @@ "500" :> 500 @@ "-1" :> -1 )

\* parameter k of query q is present and is a number from lo to hi
Usable(q, k, lo, hi) ==
  /\ k \in DOMAIN q
  /\ q[k] \in DOMAIN Numerals
  /\ Numerals[q[k]] \in lo..hi

BadCoordinates(q) == ~Usable(q, "lat", -90, 90) \/ ~Usable(q, "lng", -180, 180)

CenterCalls == CallsOf("buildHazardsSummary") \cup CallsOf("findNearestUsgsGage")

\* the routes hand the core only centers within range
C20_CoreSeesValidCenters ==
  route # NoRoute =>
    \A i \in CenterCalls :
      /\ route.calls[i].center.lat \in -90..90
      /\ route.calls[i].center.lng \in -180..180

\* C20: the hazards, advice and river routes call buildHazardsSummary and
\* findNearestUsgsGage only with a center within range, and a request whose
\* lat or lng is missing, not a number, not finite or out of range is answered
\* with 400 without any call of the core or upstream request, also when the
\* coordinates come from the subscriber registry.
C20_AsStated ==
  route # NoRoute =>
    /\ \A i \in CenterCalls :
         /\ route.calls[i].center.lat \in -90..90
         /\ route.calls[i].center.lng \in -180..180
    /\ BadCoordinates(route.query) =>
         /\ route.pc = "done"
         /\ route.response.status = 400
         /\ route.calls = <<>>
         /\ \A s \in Sources : requests[s] = 0

\* a request with an empty lat is taken for latitude 0 and answered with 200
C20_Witness ==
  /\ route.name = "hazards"
  /\ route.query = [lat |-> "", lng |-> "1"]
  /\ route.pc = "done"
  /\ route.response.status = 200
  /\ route.response.body.center = [lat |-> 0, lng |-> 1]

\* a hazards or advice route holds the summary buildHazardsSummary returned
SummaryObtained ==
  /\ route.name \in {"hazards", "advice"}
  /\ op = "buildHazardsSummary"
  /\ result.st = "returned"

\* radiusKm and years that are absent or no finite number fall back to 100 and 5
C21_DefaultsApply ==
  SummaryObtained =>
    /\ ("radiusKm" \notin DOMAIN route.query \/ route.query.radiusKm \notin DOMAIN Numerals)
         => result.value.radiusKm = 100
    /\ ("years" \notin DOMAIN route.query \/ route.query.years \notin DOMAIN Numerals)
         => result.value.lookbackYears = 5

\* C21: every summary the hazards and advice routes obtain from
\* buildHazardsSummary has radiusKm > 0 and lookbackYears >= 1, whatever the
\* radiusKm and years parameters of the request.
C21_AsStated ==
  SummaryObtained =>
    /\ result.value.radiusKm > 0
    /\ result.value.lookbackYears >= 1

\* radiusKm=0 and years=0 pass through to the summary, which is answered with 200
C21_Witness ==
  /\ route.name = "hazards"
  /\ route.query = [lat |-> "1", lng |-> "1", radiusKm |-> "0", years |-> "0"]
  /\ route.pc = "done"
  /\ route.response.status = 200
  /\ route.response.body.radiusKm = 0
  /\ route.response.body.lookbackYears = 0

\* the EONET request of the aggregation in flight is out
EonetRequested ==
  /\ op = "buildHazardsSummary"
  /\ Eonet.st = "awaitFetch"

\* C22: the days parameter of the EONET request lies between 30 and 3650; it
\* is 365 * lookbackYears when that product lies in this range, 30 when the
\* product is smaller (zero and negative lookbackYears among them) and 3650
\* when it is larger.
C22_DayWindow ==
  EonetRequested =>
    LET product == 365 * args.lookbackYears IN
      /\ "days" \in DOMAIN Eonet
      /\ Eonet.days \in 30..3650
      /\ product \in 30..3650 => Eonet.days = product
      /\ product < 30 => Eonet.days = 30
      /\ product > 3650 => Eonet.days = 3650

\* a request for the events of the year to come asks for 30 days
C22_Witness ==
  /\ EonetRequested
  /\ args.lookbackYears = -1
  /\ Eonet.days = 30

\* titles of EONET categories that computeRisk maps to no risk category
OtherTitles == {"Sea and Lake Ice", "Dust and Haze"}

\* every way of counting events under the other titles
OtherCounts == UNION {[K -> {1, 7}] : K \in SUBSET OtherTitles}

\* the entries of cat under the titles in T
Only(cat, T) == [t \in (DOMAIN cat) \cap T |-> cat[t]]

\* the summary with the same lookbackYears and earthquakes and the tally cat
WithTally(summary, cat) ==
  [lookbackYears |-> summary.lookbackYears,
   counts |-> [earthquakes |-> summary.counts.earthquakes, eonetByCategory |-> cat]]

\* the tally with storms counted a times and cyclones b times (no key for 0)
Storms(a, b) ==
  [t \in (IF a > 0 THEN {"Severe Storms"} ELSE {}) \cup
         (IF b > 0 THEN {"Tropical Cyclones"} ELSE {})
     |-> IF t = "Severe Storms" THEN a ELSE b]

\* C23: a summary with the same lookbackYears, earthquakes and counts of the
\* seven mapped titles gives the same risk breakdown whatever it counts under
\* other titles, and the counts of "Severe Storms" and "Tropical Cyclones"
\* matter only through their sum.
C23_UnmappedIgnored ==
  Scored =>
    LET cat == args.summary.counts.eonetByCategory
        mapped == Only(cat, MappedTitles)
        rest == Only(cat, MappedTitles \ {"Severe Storms", "Tropical Cyclones"})
        sum == (IF "Severe Storms" \in DOMAIN cat THEN cat["Severe Storms"] ELSE 0)
                 + (IF "Tropical Cyclones" \in DOMAIN cat THEN cat["Tropical Cyclones"] ELSE 0) IN
      /\ \A other \in OtherCounts :
           computeRisk(WithTally(args.summary, mapped @@ other)) = result.value
      /\ \A a \in 0..sum :
           computeRisk(WithTally(args.summary, rest @@ Storms(a, sum - a))) = result.value

\* floods and ice events were counted; the risk is that of the floods alone
C23_Witness ==
  /\ Scored
  /\ DOMAIN args.summary.counts.eonetByCategory = {"Floods", "Sea and Lake Ice"}
  /\ result.value.flood > 0
  /\ result.value.overall = result.value.flood * 20

\* the geometry entry g reports a position
IsPosition(g) == "coordinates" \in DOMAIN g /\ Len(g.coordinates) >= 2

RelativeTrend(years) ==
  LET t == Trend(years, "average_precip_mm")
      P == Numeric(years, "average_precip_mm")
      sum == SumOver([i \in P |-> years[i].average_precip_mm], P) IN
    IF sum > 0 /\ t[2] > 0 THEN <<t[1] * Cardinality(P), t[2] * sum>> ELSE <<0, 1>>

\* 0 up to 0.01, 1 from 0.03, linear in between, of the magnitude of r, as
\* the pair <<numerator, denominator>>
Ramped(r) ==
  IF 100 * Abs(r[1]) <= r[2] THEN <<0, 1>>
  ELSE IF 100 * Abs(r[1]) >= 3 * r[2] THEN <<1, 1>>
  ELSE <<100 * Abs(r[1]) - r[2], 2 * r[2]>>

Reversed(years) == [i \in 1..Len(years) |-> years[Len(years) + 1 - i]]

\* C25: the precipitation penalty is the ramp of the relative slope for a
\* drying trend and half that ramp for a wetting trend, thresholds 0.01 and
\* 0.03; a wetting trend costs exactly half of what the same trend reversed
\* costs and never more than 0.5; with a temperature slope within 0.02 the
\* score is at least 80 under a wetting trend and at least 60 under a drying
\* one.
C25_WettingHalved ==
  (StabilityScored /\ args.years # <<>>) =>
    LET w == LastYears(args.years)
        r == RelativeTrend(w)
        full == Ramped(r)
        pp == StabilityLocals(w).precipPenalty
        back == StabilityLocals(Reversed(w)).precipPenalty IN
      /\ r[1] < 0 => pp.num * full[2] = full[1] * pp.den
      /\ r[1] > 0 => 2 * pp.num * full[2] = full[1] * pp.den
      /\ r[1] = 0 => pp.num = 0
      /\ (r[1] > 0 /\ RelativeTrend(Reversed(w)) = <<-r[1], r[2]>>) =>
           2 * pp.num * back.den = back.num * pp.den
      /\ r[1] > 0 => 2 * pp.num <= pp.den
      /\ (SlowTemperature(w) /\ r[1] > 0) => result.value >= 80
      /\ (SlowTemperature(w) /\ r[1] < 0) => result.value >= 60

\* the steepest wetting trend under flat temperature: penalty 0.5, score 80,
\* where the same years in reverse have penalty 1
C25_Witness ==
  /\ StabilityScored
  /\ args.years = <<Year(1000, -100), Year(1000, 102)>>
  /\ StabilityLocals(args.years).precipPenalty = [num |-> 1, den |-> 2]
  /\ StabilityLocals(Reversed(args.years)).precipPenalty = [num |-> 1, den |-> 1]
  /\ result.value = 80

\* this step is a POST to /api/subscribe being answered
Posted ==
  /\ route.name # "subscribe"
  /\ route'.name = "subscribe"
  /\ route'.method = "POST"

\* the body carries no email, or one that is not a string
NoEmail(body) == "email" \notin DOMAIN body \/ "str" \notin DOMAIN body.email

\* the body carries no finite number under key k
NotFinite(body, k) == k \notin DOMAIN body \/ "num" \notin DOMAIN body[k]

\* the registry m after the entry of body, stamped now, was written over m
Written(m, body, now) ==
  LET email == body.email.str
      entry == [email |-> email, lat |-> body.lat.num, lng |-> body.lng.num,
                radiusKm |-> IF NotFinite(body, "radiusKm") THEN 50 ELSE body.radiusKm.num,
                createdAt |-> now]
      others == {i \in 1..Len(m) : m[i].email # email} IN
    \E i \in 1..Len(subscribers') :
      /\ subscribers'[i] = entry
      /\ \A j \in 1..Len(subscribers') : subscribers'[j].email = email => j = i
      /\ {subscribers'[j] : j \in 1..Len(subscribers') \ {i}} = {m[j] : j \in others}

OnePerEmail(m) == \A i, j \in 1..Len(m) : m[i].email = m[j].email => i = j

\* what a step may do to the registry when a rejected POST is answered with
\* one of the given statuses
RegistryStep(rejections) ==
  /\ OnePerEmail(subscribers')
  /\ Posted =>
       /\ (NoEmail(route'.body) \/ NotFinite(route'.body, "lat") \/ NotFinite(route'.body, "lng"))
            => route'.response.status \in rejections
       /\ route'.response.status = 200 => Written(subscribers, route'.body, route'.now)
       /\ route'.response.status # 200 => subscribers' = subscribers
  /\ ~Posted => subscribers' = subscribers

\* C26: the registry holds one entry per email; an accepted POST writes the
\* entry of its email over the one held, with radiusKm 50 when the body has
\* no finite radiusKm; a POST without a string email or without finite lat
\* and lng is answered with 400 and leaves the registry as it was; no other
\* step, of the hazards, advice or river routes or of the listing, changes
\* the registry.
C26_AsStated == [][RegistryStep({400})]_vars

\* the same, a rejected POST being answered with 400 or with 500
C26_LastWriteWins == [][RegistryStep({400, 500})]_vars

\* a POST whose body is null is answered with 500 while the registry holds
\* an entry
C26_Witness ==
  /\ route.name = "subscribe"
  /\ route.method = "POST"
  /\ route.body = Null
  /\ route.response.status = 500
  /\ subscribers # <<>>

\* a second POST for a@x has replaced the entry of the first, and b@x, whose
\* radiusKm was a string, is stored with 50
C26_Overwritten ==
  /\ route.name = "subscribe"
  /\ route.method = "POST"
  /\ route.response.status = 200
  /\ route.body.email = Str("a@x")
  /\ subscribers = <<[email |-> "a@x", lat |-> 0, lng |-> 0, radiusKm |-> 50, createdAt |-> 2],
                     [email |-> "b@x", lat |-> 1, lng |-> 1, radiusKm |-> 50, createdAt |-> 1]>>

====
